---- MODULE Spec2Model ----
(***************************************************************************)
(* BiblioSense query-resolution core: the GPT response cache               *)
(* (utils/gpt_cache.py), the cached Classifier wrappers                    *)
(* (utils/gpt_services*.py), the performance monitor                       *)
(* (utils/performance_monitor.py), the text matching and taxonomy scoring  *)
(* (utils/text_matching.py) and the /filter handler (app.py).              *)
(*                                                                         *)
(* Python strings are TLA+ strings; lower(), strip(), equality and         *)
(* containment are computed character by character.                        *)
(***************************************************************************)
EXTENDS Integers, Sequences, FiniteSets, TLC

(***************************************************************************)
(* Bounds of the model.                                                    *)
(***************************************************************************)
\* time.time() runs over 0..MaxTime
MaxTime == 2
\* number of cache API calls started in one behaviour of SpecCache
MaxOps == 3
\* number of get hits in one behaviour of SpecLru
MaxHits == 1
\* capacity of the GPTCache instance of the model (GPTCache.max_size)
max_size == 2
\* time-to-live of the GPTCache instance of the model (GPTCache.ttl_seconds)
ttl_seconds == 1

Threads == {"t1", "t2"}

(***************************************************************************)
(* Python string primitives.                                               *)
(***************************************************************************)
UpperSeq == <<"A", "B", "C", "D", "E", "F", "G", "H", "I", "J", "K", "L", "M", "N", "O", "P", "Q", "R", "S", "T", "U", "V", "W", "X", "Y", "Z", "É", "È", "À", "Ç">>
LowerSeq == <<"a", "b", "c", "d", "e", "f", "g", "h", "i", "j", "k", "l", "m", "n", "o", "p", "q", "r", "s", "t", "u", "v", "w", "x", "y", "z", "é", "è", "à", "ç">>

\* str.lower() on one character
LowerChar(c) ==
    IF \E i \in 1..Len(UpperSeq) : UpperSeq[i] = c
    THEN LowerSeq[CHOOSE i \in 1..Len(UpperSeq) : UpperSeq[i] = c]
    ELSE c

\* s[i], for i in 1..Len(s)
Char(s, i) == SubSeq(s, i, i)

\* str.lower()
RECURSIVE Lower(_)
Lower(s) == IF s = "" THEN "" ELSE LowerChar(Char(s, 1)) \o Lower(SubSeq(s, 2, Len(s)))

IsSpace(c) == c \in {" ", "\t", "\n"}

\* str.strip(): leading and trailing whitespace removed
Strip(s) ==
    LET nonsp == {i \in 1..Len(s) : ~IsSpace(Char(s, i))}
    IN  IF nonsp = {} THEN ""
        ELSE LET lo == CHOOSE i \in nonsp : \A j \in nonsp : i <= j
                 hi == CHOOSE i \in nonsp : \A j \in nonsp : j <= i
             IN  SubSeq(s, lo, hi)

(***************************************************************************)
(* GPTCache (utils/gpt_cache.py).                                          *)
(*                                                                         *)
(* A query handed to the cache is a Python value: [type, v] with v its     *)
(* text; only a str has lower().        A taxonomy is named by its JSON    *)
(* text; json.dumps fails on an unserialisable one.  md5 is modelled as    *)
(* injective: the digest of a text is the text.                            *)
(***************************************************************************)
PyStr(s) == [type |-> "str", v |-> s]
PyInt(s) == [type |-> "int", v |-> s]
PyNone == [type |-> "NoneType", v |-> ""]

CacheQueries == {PyStr("A "), PyStr("a"), PyStr("b"), PyInt("7")}
Unserializable == "<set>"
CacheTaxonomies == {"T1", "T2"}
\* responses stored in the cache; EmptyDict is the falsy JSON object {}
EmptyDict == "{}"
Responses == {"r1", EmptyDict}
None == "None"

md5(text) == text

\* _generate_key raises for a query without lower() or a taxonomy json.dumps rejects
generate_key_raises(query, taxonomy_data) ==
    query.type # "str" \/ taxonomy_data = Unserializable

generate_key(query, taxonomy_data) ==
    [query |-> Strip(Lower(query.v)), taxonomy_hash |-> md5(taxonomy_data)]

VARIABLES
    cache,          \* GPTCache.cache: the OrderedDict as a sequence of [key, value, timestamp], oldest first
    cache_hits,     \* GPTCache.cache_hits
    cache_misses,   \* GPTCache.cache_misses
    now,            \* time.time()
    pc,             \* per thread: where it is in the call it is executing
    tmp,            \* per thread: the value read by an unlocked  cache_misses += 1
    ops,            \* number of cache API calls started
    last,           \* the most recent completed cache call and what it returned (history)
    set_at,         \* per key: the time of the last successful set, -1 if none (history)
    lru,            \* keys in order of last use, least recent first (history, SpecLru)
    wr,             \* per thread: the locals of the cached Classifier wrapper it is executing
    wlast,          \* the most recent wrapper call that returned, and how (history)
    returned        \* per (query, taxonomy): the results wrapper calls returned since the
                    \* key's entry was last absent from the cache (history)

cacheVars == <<cache, cache_hits, cache_misses, now, pc, tmp, ops, last, set_at, lru>>
memoVars == <<wr, wlast, returned>>

VARIABLES
    active_users,        \* PerformanceMonitor.active_users
    user_last_activity,  \* PerformanceMonitor.user_last_activity: the dict as a sequence of
                         \* [user_id, last_activity] in insertion order
    response_times,      \* PerformanceMonitor.response_times: the deque, oldest first
    request_count,       \* PerformanceMonitor.request_count
    mlock,               \* PerformanceMonitor.lock: the thread holding it, or None
    slast,               \* the most recent monitor call that returned, and what (history)
    dropped              \* cleanup_inactive_users_safe took the count from above max_users
                         \* to max_users or less, and it has not exceeded it since (history)

monVars == <<active_users, user_last_activity, response_times, request_count, mlock,
             slast, dropped>>

VARIABLES
    books_data,            \* app.books_data: the name of the catalog loaded at start-up
    keyword_items,         \* filter_categories: the name of the keyword map of the request
    hphase,                \* filter_categories: the phase the request is in
    title_author_matches,  \* filter_categories: first result of filter_books_by_keywords
    other_keyword_matches, \* filter_categories: second result of filter_books_by_keywords
    branch,                \* the strategy the selector took: 1..4, 0 before it ran or
                           \* when no condition of the if/elif chain held (history)
    merged_taxonomy,       \* filter_categories: the local merged_taxonomy
    filtered_books,        \* filter_categories: the local filtered_books
    taxonomy_matches,      \* filter_categories: the local taxonomy_matches
    catalog,               \* app.books_data: the records of the catalog as they are in memory
    exc                    \* filter_categories: the exception raised inside the try block,
                           \* "" if none

selVars == <<books_data, keyword_items, hphase, title_author_matches, other_keyword_matches,
             branch, merged_taxonomy, filtered_books, taxonomy_matches, catalog, exc>>

VARIABLES
    query_text,          \* filter_categories: the text of the request
    user_id,             \* filter_categories: session['user_id']
    start_time,          \* filter_categories: time.time() when the request came in
    description_result,  \* filter_categories: what cached_gpt_description returned
    user_filtered_books, \* app.user_filtered_books: per user, whether a list is stored and the list
    session_timestamps,  \* SessionCleanup: the stored time of last activity per user, -1 if none
    query_log,           \* the entries log_query wrote, oldest first
    status,              \* the HTTP status of the last response, 0 before the first
    requests,            \* number of /filter requests received
    run_clean,           \* no cache entry was removed or given another value since the
                         \* request under way began (history)
    stored_before,       \* per query text: the ids of the list its last completed request
                         \* stored, valid while no cache entry was removed or given another
                         \* value since that request began (history)
    compared,            \* stored_before of its query, as the last completed request found it
                         \* (history)
    reply,               \* the JSON body of the last response: its "error" ("" if it has
                         \* none) and its "retry_after" (0 if it has none)
    gpt_calls,           \* number of calls of a service function (get_keywords_with_gpt,
                         \* get_catagories_with_gpt, get_description_with_gpt) made by the
                         \* request under way or, when none is, by the last one (history)
    stored_at_start      \* user_filtered_books as the request under way found it (history)

reqVars == <<query_text, user_id, start_time, description_result, user_filtered_books,
             session_timestamps, query_log, status, requests, run_clean, stored_before,
             compared, reply, gpt_calls, stored_at_start>>

VARIABLES
    glock,   \* GPTCache.lock: the thread holding it, or None
    sloc,    \* per thread: the locals of the session call it is executing: user_id, the
             \* session_timestamps it loaded and modified, its filtered_books
    sweep,   \* the cleanup thread: where it is in cleanup_expired_sessions, its locals
             \* current_time, session_timestamps and expired_sessions, and the sessions
             \* that were due when the run began (due, history)
    activity \* per user: the time of the latest update_session_activity call completed
             \* for the session, -1 if none (history)

concVars == <<glock, sloc, sweep, activity>>

VARIABLES
    fn_args,   \* the arguments of the call of a function of utils/text_matching.py
    fn_result  \* how far the call is (pc) and what it has computed

fnVars == <<fn_args, fn_result>>

vars == <<cacheVars, memoVars, monVars, selVars, reqVars, concVars, fnVars>>

\* what the actions of one component leave alone
notCache == <<memoVars, monVars, selVars, reqVars, concVars, fnVars>>
notMemo == <<monVars, selVars, reqVars, concVars, fnVars>>
notMonitor == <<cache, cache_hits, cache_misses, tmp, ops, last, set_at, lru, memoVars, selVars,
                reqVars, concVars, fnVars>>
notSelect == <<cacheVars, memoVars, monVars, reqVars, concVars, fnVars>>
\* the variables of the cache, wrapper, lock and session scenarios that a /filter request
\* of the sequential scenarios leaves alone
cacheHistory == <<pc, tmp, ops, last, set_at, lru, memoVars, concVars, fnVars>>
\* what the steps of a cache call that take or release GPTCache.lock leave alone
notLocks == <<monVars, selVars, reqVars, sloc, sweep, activity, fnVars>>

KeyIndex(c, key) ==
    IF \E i \in 1..Len(c) : c[i].key = key
    THEN CHOOSE i \in 1..Len(c) : c[i].key = key
    ELSE 0

Keys(c) == {c[i].key : i \in 1..Len(c)}

RemoveAt(c, i) == SubSeq(c, 1, i - 1) \o SubSeq(c, i + 1, Len(c))

\* OrderedDict.popitem(last=False)
popitem_first(c) == Tail(c)

\* OrderedDict.move_to_end(key)
move_to_end(c, key) ==
    LET i == KeyIndex(c, key) IN RemoveAt(c, i) \o <<c[i]>>

\* get() that returns a hit without move_to_end (mutant: the order of use is lost)
get_locked_no_move(c, key, t) ==
    LET i == KeyIndex(c, key)
    IN  IF i # 0
        THEN IF t - c[i].timestamp < ttl_seconds
             THEN [cache |-> c, ret |-> c[i].value, hit |-> TRUE]
             ELSE [cache |-> RemoveAt(c, i), ret |-> None, hit |-> FALSE]
        ELSE [cache |-> c, ret |-> None, hit |-> FALSE]

\* get() with the expiry test inverted (mutant)
get_locked_inverted(c, key, t) ==
    LET i == KeyIndex(c, key)
    IN  IF i # 0
        THEN IF t - c[i].timestamp >= ttl_seconds
             THEN [cache |-> move_to_end(c, key), ret |-> c[i].value, hit |-> TRUE]
             ELSE [cache |-> RemoveAt(c, i), ret |-> None, hit |-> FALSE]
        ELSE [cache |-> c, ret |-> None, hit |-> FALSE]

\* get() that reports an expired entry as a miss but does not delete it (mutant)
get_locked_keep_expired(c, key, t) ==
    LET i == KeyIndex(c, key)
    IN  IF i # 0 /\ t - c[i].timestamp < ttl_seconds
        THEN [cache |-> move_to_end(c, key), ret |-> c[i].value, hit |-> TRUE]
        ELSE [cache |-> c, ret |-> None, hit |-> FALSE]

\* the body of get() under the lock: [cache, ret, hit]
get_locked(c, key, t) ==
    LET i == KeyIndex(c, key)
    IN  IF i # 0
        THEN IF t - c[i].timestamp < ttl_seconds
             THEN [cache |-> move_to_end(c, key), ret |-> c[i].value, hit |-> TRUE]
             ELSE [cache |-> RemoveAt(c, i), ret |-> None, hit |-> FALSE]
        ELSE [cache |-> c, ret |-> None, hit |-> FALSE]

\* set() that evicts only once the capacity is already exceeded (mutant: > for >=)
set_locked_late_evict(c, key, response, t) ==
    LET c1 == IF Len(c) > max_size THEN popitem_first(c) ELSE c
        i  == KeyIndex(c1, key)
        e  == [key |-> key, value |-> response, timestamp |-> t]
    IN  [cache |-> IF i # 0 THEN [c1 EXCEPT ![i] = e] ELSE Append(c1, e), ok |-> TRUE]

\* the body of set() under the lock: [cache, ok]
set_locked(c, key, response, t) ==
    IF Len(c) >= max_size /\ Len(c) = 0
    THEN [cache |-> c, ok |-> FALSE]   \* popitem on an empty dict raises KeyError, caught
    ELSE LET c1 == IF Len(c) >= max_size THEN popitem_first(c) ELSE c
             i  == KeyIndex(c1, key)
             e  == [key |-> key, value |-> response, timestamp |-> t]
         IN  [cache |-> IF i # 0 THEN [c1 EXCEPT ![i] = e] ELSE Append(c1, e),
              ok |-> TRUE]

RECURSIVE Unexpired(_, _)
Unexpired(c, t) ==
    IF c = <<>> THEN <<>>
    ELSE IF t - Head(c).timestamp >= ttl_seconds
         THEN Unexpired(Tail(c), t)
         ELSE <<Head(c)>> \o Unexpired(Tail(c), t)

\* clear_expired_unsafe(): [cache, n]
clear_expired_unsafe(c, t) ==
    [cache |-> Unexpired(c, t), n |-> Len(c) - Len(Unexpired(c, t))]

\* the key of every (query, taxonomy) of the model, derived once
KeyTable == [q \in {x \in CacheQueries : x.type = "str"}, tx \in CacheTaxonomies |-> generate_key(q, tx)]
KeyOf(query, taxonomy_data) == KeyTable[query, taxonomy_data]
AllKeys == {KeyTable[x] : x \in DOMAIN KeyTable}
NoKey == [query |-> "", taxonomy_hash |-> "-"]
\* a completed call: what it was, what it returned and what it left behind
\*   fresh: a get that directly follows a successful set of the same key, less than ttl_seconds later
\*   value: the response of the set (for a fresh get: of the set it follows)
NoEvent == [op |-> "none", key |-> NoKey, value |-> None, ret |-> None, time |-> 0,
            hit |-> FALSE, miss |-> FALSE, present |-> FALSE, ok |-> FALSE, size |-> 0,
            fresh |-> FALSE, age |-> -1, had |-> FALSE]

\* the wrapper's locals when no call is in progress, and the history before any return
NoCall == [text |-> PyNone, taxonomy_data |-> None, categories |-> None, expect |-> {}]
NoReturn == [text |-> PyNone, taxonomy_data |-> None, ret |-> None, called |-> FALSE, expect |-> {}]

CacheInit ==
    /\ cache = <<>>
    /\ cache_hits = 0
    /\ cache_misses = 0
    /\ now = 0
    /\ pc = [t \in Threads |-> "idle"]
    /\ tmp = [t \in Threads |-> 0]
    /\ ops = 0
    /\ last = NoEvent
    /\ set_at = [k \in AllKeys |-> -1]
    /\ lru = <<>>
    /\ wr = [t \in Threads |-> NoCall]
    /\ wlast = NoReturn
    /\ returned = [x \in DOMAIN KeyTable |-> {}]
    /\ glock = None

Without(s, x) == SelectSeq(s, LAMBDA y : y # x)

(***************************************************************************)
(* PerformanceMonitor (utils/performance_monitor.py): initial state.       *)
(***************************************************************************)
Users == {"u1", "u2", "u3"}
\* the limits of the PerformanceMonitor instance of the model
max_users == 1
memory_limit == 85
cpu_limit == 90
response_time_limit == 10
\* cleanup_inactive_users_safe: the idle time after which a user is dropped, the
\* number of entries one call looks at (50 in the source) and the number it drops
\* at most (10 in the source), scaled to the size of Users
timeout_seconds == 1
ScanCap == 2
BatchCap == 1
\* response_times = deque(maxlen=1000), scaled
DequeLen == 1
\* number of track_request calls in one behaviour
MaxTracks == 3
\* what psutil can report: memory.percent, cpu_percent() (0 also stands for the
\* fallback cpu = 0.0 when cpu_percent raises)
MemorySamples == {memory_limit, memory_limit + 1}
CpuSamples == {0, cpu_limit + 1}
ResponseTimeSamples == {1, response_time_limit + 1}

NoStats == [op |-> "none", debug_mode |-> FALSE, active_users |-> 0, memory |-> 0, cpu |-> 0,
            avg_high |-> FALSE, ret |-> FALSE, reason |-> "", dropped |-> FALSE, n |-> 0,
            acquired |-> FALSE]

MonitorInit ==
    /\ active_users = {}
    /\ user_last_activity = <<>>
    /\ response_times = <<>>
    /\ request_count = [u \in Users |-> 0]
    /\ mlock = None
    /\ slast = NoStats
    /\ dropped = FALSE

\* the catalogs of the model: a record has an id and the fields of the book; its
\* classification is a JSON text, named as in JsonTexts, "{not json" is not JSON and
\* "[1]" is JSON for a list
Catalogs ==
    [petit |-> <<[id |-> "b1", titre |-> "Le Petit Prince",
                  auteur |-> "Antoine de Saint-Exupéry", pages |-> "96"]>>,
     petit_en |-> <<[id |-> "b1", title |-> "Le Petit Prince",
                     author |-> "Antoine de Saint-Exupéry", pages |-> "96"]>>,
     library |-> <<[id |-> "b2", titre |-> "Dune", auteur |-> "Frank Herbert", langue |-> "fr",
                    pages |-> "412", classification |-> "sf_epic_adult"],
                   [id |-> "b3", titre |-> "Fondation", auteur |-> "Isaac Asimov",
                    langue |-> "fr", classification |-> "sf_epic"],
                   [id |-> "b4", titre |-> "Ubik", langue |-> "en", classification |-> "sf"],
                   [id |-> "b5", langue |-> "fr", classification |-> "{not json"],
                   [id |-> "b6", titre |-> "Hypérion", langue |-> "en",
                    classification |-> "sf_epic_adult"],
                   [id |-> "b7", titre |-> "Dune II", langue |-> "fr",
                    classification |-> "sf_epic"]>>,
     shelf |-> <<[id |-> "b4", titre |-> "Ubik", langue |-> "en", classification |-> "sf"],
                 [id |-> "b8", titre |-> "Ubik", auteur |-> "Philip K. Dick", langue |-> "fr",
                  categorie |-> "Roman, science-fiction", classification |-> EmptyDict],
                 [id |-> "b6", titre |-> "Hypérion", langue |-> "en",
                  classification |-> "sf_epic_adult"],
                 [id |-> "b3", titre |-> "Fondation", auteur |-> "Isaac Asimov",
                  langue |-> "fr", resume |-> "La chute d'un empire.", classification |-> "sf_epic"],
                 [id |-> "b9", titre |-> "Contes", langue |-> "fr", classification |-> "tale"]>>,
     broken |-> <<[id |-> "b2", titre |-> "Dune", langue |-> "fr", classification |-> "[1]"],
                  [id |-> "b3", titre |-> "Fondation", auteur |-> "Isaac Asimov",
                   langue |-> "fr", classification |-> "sf_epic"]>>,
     none |-> <<>>]

\* no /filter request under way
SelectIdle ==
    /\ books_data = "library"
    /\ keyword_items = "k_empty"
    /\ hphase = "idle"
    /\ title_author_matches = <<>>
    /\ other_keyword_matches = <<>>
    /\ branch = 0
    /\ merged_taxonomy = [kind |-> "unbound", mains |-> {}, tags |-> {}]
    /\ filtered_books = <<>>
    /\ taxonomy_matches = <<>>
    /\ catalog = Catalogs[books_data]
    /\ exc = ""

\* the queries of the /filter requests: "Dune" and "DUNE" have the same cache key
Queries == {"Dune", "DUNE"}
\* the users that send them
RequestUsers == {"u1", "u2"}
\* number of /filter requests in one behaviour
MaxRequests == 2
\* the time up to which they are followed
MaxRequestTime == 1

NoList == [has |-> FALSE, list |-> <<>>]
\* the locals of a thread that executes no session call, and of the cleanup thread
\* between two runs of cleanup_expired_sessions
NoSession == [user_id |-> None, session_timestamps |-> [u \in RequestUsers |-> -1],
              filtered_books |-> <<>>]
SweepIdle == [pc |-> "idle", current_time |-> 0,
              session_timestamps |-> [u \in RequestUsers |-> -1], expired_sessions |-> {},
              due |-> {}]
NoRun == [valid |-> FALSE, ids |-> <<>>]
\* the bodies of the responses of /filter: results, the 503 of lines 316-319 and the 500
\* of lines 571-575
NoError == [error |-> "", retry_after |-> 0]
Overloaded == [error |-> "Service temporarily overloaded", retry_after |-> 30]
Unavailable == [error |-> "Classification service temporarily unavailable", retry_after |-> 0]

\* nothing stored, logged or answered yet
SessionInit ==
    /\ user_filtered_books = [u \in RequestUsers |-> NoList]
    /\ session_timestamps = [u \in RequestUsers |-> -1]
    /\ sloc = [t \in Threads |-> NoSession]
    /\ sweep = SweepIdle
    /\ activity = [u \in RequestUsers |-> -1]
    /\ query_log = <<>>
    /\ status = 0
    /\ run_clean = TRUE
    /\ stored_before = [q \in Queries |-> NoRun]
    /\ compared = NoRun
    /\ reply = NoError
    /\ gpt_calls = 0
    /\ stored_at_start = [u \in RequestUsers |-> NoList]

\* no request received yet
RequestInit ==
    /\ SessionInit
    /\ query_text = ""
    /\ user_id = None
    /\ start_time = 0
    /\ description_result = None
    /\ requests = 0

\* no function of utils/text_matching.py called on its own
NoArgs == [fn |-> ""]
NotCalled == [pc |-> "idle"]
FnIdle ==
    /\ fn_args = NoArgs
    /\ fn_result = NotCalled

Init == CacheInit /\ MonitorInit /\ SelectIdle /\ RequestInit /\ FnIdle

\* get(query, taxonomy_data) when the key is derived: lines 37-53, one lock section
GetCore(query, taxonomy_data) ==
    /\ ~generate_key_raises(query, taxonomy_data)
    /\ LET key == KeyOf(query, taxonomy_data)
           r   == get_locked(cache, key, now)
       IN  /\ cache' = r.cache
           /\ cache_hits' = IF r.hit THEN cache_hits + 1 ELSE cache_hits
           /\ cache_misses' = IF r.hit THEN cache_misses ELSE cache_misses + 1
           /\ last' = [op |-> "get", key |-> key, ret |-> r.ret, time |-> now,
                       value |-> last.value,
                       fresh |-> (last.op = "set" /\ last.ok /\ last.key = key
                                  /\ now - last.time < ttl_seconds),
                       age |-> IF set_at[key] < 0 THEN -1 ELSE now - set_at[key],
                       had |-> key \in Keys(cache),
                       hit |-> cache_hits' = cache_hits + 1,
                       miss |-> cache_misses' = cache_misses + 1,
                       present |-> key \in Keys(cache'), ok |-> TRUE, size |-> Len(cache')]
    /\ UNCHANGED <<now, tmp, set_at>>

Get(th, query, taxonomy_data) ==
    /\ UNCHANGED notCache
    /\ pc[th] = "idle"
    /\ ops < MaxOps
    /\ ops' = ops + 1
    /\ GetCore(query, taxonomy_data)
    /\ UNCHANGED <<pc, lru>>

\* get(query, taxonomy_data) when _generate_key raises: lines 30-35, outside the lock
GetKeyError(th, query, taxonomy_data) ==
    /\ UNCHANGED notCache
    /\ pc[th] = "idle"
    /\ ops < MaxOps
    /\ generate_key_raises(query, taxonomy_data)
    /\ pc' = [pc EXCEPT ![th] = "miss_read"]
    /\ ops' = ops + 1
    /\ UNCHANGED <<cache, cache_hits, cache_misses, now, tmp, last, set_at, lru>>

\* self.cache_misses += 1 without the lock: the read ...
MissRead(th) ==
    /\ UNCHANGED notCache
    /\ pc[th] \in {"miss_read", "w_miss_read"}
    /\ tmp' = [tmp EXCEPT ![th] = cache_misses]
    /\ pc' = [pc EXCEPT ![th] = IF @ = "miss_read" THEN "miss_write" ELSE "w_miss_write"]
    /\ UNCHANGED <<cache, cache_hits, cache_misses, now, ops, last, set_at, lru>>

\* ... and the write
MissWrite(th) ==
    /\ UNCHANGED notCache
    /\ pc[th] \in {"miss_write", "w_miss_write"}
    /\ cache_misses' = tmp[th] + 1
    /\ pc' = [pc EXCEPT ![th] = IF @ = "miss_write" THEN "idle" ELSE "w_classify"]
    /\ tmp' = [tmp EXCEPT ![th] = 0]
    /\ UNCHANGED <<cache, cache_hits, now, ops, last, set_at, lru>>

\* set(query, taxonomy_data, response): lines 59-78
SetCore(query, taxonomy_data, response) ==
    /\ IF generate_key_raises(query, taxonomy_data)
       THEN /\ last' = [NoEvent EXCEPT !.op = "set", !.time = now, !.size = Len(cache)]
            /\ UNCHANGED <<cache, set_at>>
       ELSE LET key == KeyOf(query, taxonomy_data)
                r   == set_locked(cache, key, response, now)
            IN  /\ cache' = r.cache
                /\ last' = [op |-> "set", key |-> key, value |-> response, ret |-> None,
                            time |-> now, hit |-> FALSE, miss |-> FALSE,
                            present |-> key \in Keys(cache'), ok |-> r.ok, size |-> Len(cache'),
                            fresh |-> FALSE, age |-> -1, had |-> key \in Keys(cache)]
                /\ set_at' = IF r.ok THEN [set_at EXCEPT ![key] = now] ELSE set_at
    /\ UNCHANGED <<cache_hits, cache_misses, now, tmp>>

Set(th, query, taxonomy_data, response) ==
    /\ UNCHANGED notCache
    /\ pc[th] = "idle"
    /\ ops < MaxOps
    /\ ops' = ops + 1
    /\ SetCore(query, taxonomy_data, response)
    /\ UNCHANGED <<pc, lru>>

\* clear_expired(): lines 80-83
ClearExpired(th) ==
    /\ UNCHANGED notCache
    /\ pc[th] = "idle"
    /\ ops < MaxOps
    /\ ops' = ops + 1
    /\ cache' = clear_expired_unsafe(cache, now).cache
    /\ last' = [NoEvent EXCEPT !.op = "clear_expired", !.time = now, !.ok = TRUE,
                               !.size = Len(cache')]
    /\ UNCHANGED <<cache_hits, cache_misses, now, pc, tmp, set_at, lru>>

\* get_stats(cleanup_expired): lines 120-144; the returned cache_size is last.size
GetStats(th, cleanup_expired) ==
    /\ UNCHANGED notCache
    /\ pc[th] = "idle"
    /\ ops < MaxOps
    /\ ops' = ops + 1
    /\ cache' = IF cleanup_expired THEN clear_expired_unsafe(cache, now).cache ELSE cache
    /\ last' = [NoEvent EXCEPT !.op = "get_stats", !.time = now, !.ok = TRUE,
                               !.size = Len(cache')]
    /\ UNCHANGED <<cache_hits, cache_misses, now, pc, tmp, set_at, lru>>

\* the clock advances
Tick ==
    /\ UNCHANGED notCache
    /\ now < MaxTime
    /\ now' = now + 1
    /\ UNCHANGED <<cache, cache_hits, cache_misses, pc, tmp, ops, last, set_at, lru>>

CacheNext ==
    \/ \E th \in Threads, q \in CacheQueries, tx \in CacheTaxonomies : Get(th, q, tx)
    \/ \E th \in Threads, q \in CacheQueries, tx \in CacheTaxonomies : GetKeyError(th, q, tx)
    \/ \E th \in Threads : MissRead(th)
    \/ \E th \in Threads : MissWrite(th)
    \/ \E th \in Threads, q \in CacheQueries, tx \in CacheTaxonomies, r \in Responses : Set(th, q, tx, r)
    \/ \E th \in Threads : ClearExpired(th)
    \/ \E th \in Threads, b \in BOOLEAN : GetStats(th, b)
    \/ Tick

SpecCache == Init /\ [][CacheNext]_vars

(***************************************************************************)
(* The LRU scenario: from an empty cache, set calls for keys never set     *)
(* before, interleaved with get calls that hit.  lru records the order of  *)
(* last use independently of the cache's own order.                        *)
(***************************************************************************)
LruSet(th, query, taxonomy_data, response) ==
    /\ UNCHANGED notCache
    /\ ~generate_key_raises(query, taxonomy_data)
    /\ pc[th] = "idle"
    /\ set_at[KeyOf(query, taxonomy_data)] < 0
    /\ SetCore(query, taxonomy_data, response)
    /\ lru' = Append(lru, KeyOf(query, taxonomy_data))
    /\ UNCHANGED <<pc, ops>>

LruGet(th, query, taxonomy_data) ==
    /\ UNCHANGED notCache
    /\ ~generate_key_raises(query, taxonomy_data)
    /\ get_locked(cache, KeyOf(query, taxonomy_data), now).hit
    /\ pc[th] = "idle"
    /\ cache_hits < MaxHits
    /\ GetCore(query, taxonomy_data)
    /\ UNCHANGED <<pc, ops>>
    /\ lru' = Append(Without(lru, KeyOf(query, taxonomy_data)),
                     KeyOf(query, taxonomy_data))

LruNext ==
    \/ \E th \in Threads, q \in CacheQueries, tx \in CacheTaxonomies, r \in Responses : LruSet(th, q, tx, r)
    \/ \E th \in Threads, q \in CacheQueries, tx \in CacheTaxonomies : LruGet(th, q, tx)
    \/ Tick

SpecLru == Init /\ [][LruNext]_vars

Spec == SpecCache

(***************************************************************************)
(* get_catagories_with_gpt_cached (utils/gpt_services.py): the cached      *)
(* Classifier wrapper.  Each thread runs it as: cache get, the test        *)
(* "if categories:", the Classifier call, cache set, return.  The          *)
(* Classifier is an external service: what it answers is a choice.         *)
(***************************************************************************)
\* Python truthiness of a cached value: None and the empty dict are false
Truthy(v) == v \notin {None, EmptyDict}

\* returned, once the cache is c2: nothing is remembered for a key without an entry
Forget(ret, c2) == [x \in DOMAIN KeyTable |-> IF KeyTable[x] \in Keys(c2) THEN ret[x] ELSE {}]

\* categories = gpt_cache.get(text, taxonomy_data); if categories: return categories
WrapperGet(th, text, taxonomy_data) ==
    /\ UNCHANGED notMemo
    /\ pc[th] = "idle"
    /\ ops < MaxOps
    /\ ops' = ops + 1
    /\ GetCore(text, taxonomy_data)
    /\ LET r      == get_locked(cache, KeyOf(text, taxonomy_data), now)
           expect == IF r.hit THEN returned[text, taxonomy_data] ELSE {}
       IN  IF Truthy(r.ret)
           THEN /\ wlast' = [text |-> text, taxonomy_data |-> taxonomy_data, ret |-> r.ret,
                             called |-> FALSE, expect |-> expect]
                /\ returned' = [Forget(returned, r.cache) EXCEPT ![text, taxonomy_data] = @ \cup {r.ret}]
                /\ UNCHANGED <<pc, wr>>
           ELSE /\ pc' = [pc EXCEPT ![th] = "w_classify"]
                /\ wr' = [wr EXCEPT ![th] = [text |-> text, taxonomy_data |-> taxonomy_data,
                                             categories |-> r.ret, expect |-> expect]]
                /\ returned' = Forget(returned, r.cache)
                /\ UNCHANGED wlast
    /\ UNCHANGED lru

\* the same call when the key cannot be derived: get counts a miss outside the lock
WrapperGetKeyError(th, text, taxonomy_data) ==
    /\ UNCHANGED notMemo
    /\ pc[th] = "idle"
    /\ ops < MaxOps
    /\ ops' = ops + 1
    /\ generate_key_raises(text, taxonomy_data)
    /\ pc' = [pc EXCEPT ![th] = "w_miss_read"]
    /\ wr' = [wr EXCEPT ![th] = [text |-> text, taxonomy_data |-> taxonomy_data,
                                 categories |-> None, expect |-> {}]]
    /\ UNCHANGED <<cache, cache_hits, cache_misses, now, tmp, last, set_at, lru, wlast, returned>>

\* categories = get_catagories_with_gpt(text, taxonomy_data, openai_client)
WrapperClassify(th, response) ==
    /\ UNCHANGED notMemo
    /\ pc[th] = "w_classify"
    /\ pc' = [pc EXCEPT ![th] = "w_set"]
    /\ wr' = [wr EXCEPT ![th].categories = response]
    /\ UNCHANGED <<cache, cache_hits, cache_misses, now, tmp, ops, last, set_at, lru, wlast, returned>>

\* get_catagories_with_gpt raises RuntimeError: the wrapper does not return
WrapperClassifyRaises(th) ==
    /\ UNCHANGED notMemo
    /\ pc[th] = "w_classify"
    /\ pc' = [pc EXCEPT ![th] = "idle"]
    /\ wr' = [wr EXCEPT ![th] = NoCall]
    /\ UNCHANGED <<cache, cache_hits, cache_misses, now, tmp, ops, last, set_at, lru, wlast, returned>>

\* gpt_cache.set(text, taxonomy_data, categories); return categories
WrapperSet(th) ==
    /\ UNCHANGED notMemo
    /\ pc[th] = "w_set"
    /\ SetCore(wr[th].text, wr[th].taxonomy_data, wr[th].categories)
    /\ pc' = [pc EXCEPT ![th] = "idle"]
    /\ wlast' = [text |-> wr[th].text, taxonomy_data |-> wr[th].taxonomy_data,
                 ret |-> wr[th].categories, called |-> TRUE, expect |-> wr[th].expect]
    /\ returned' = IF generate_key_raises(wr[th].text, wr[th].taxonomy_data)
                   THEN returned
                   ELSE [Forget(returned, cache') EXCEPT ![wr[th].text, wr[th].taxonomy_data] =
                            IF KeyOf(wr[th].text, wr[th].taxonomy_data) \in Keys(cache')
                            THEN @ \cup {wr[th].categories} ELSE @]
    /\ wr' = [wr EXCEPT ![th] = NoCall]
    /\ UNCHANGED <<ops, lru>>

\* app.py hands the wrapper the one taxonomy loaded at start-up
taxonomy == "T1"

MemoNext ==
    \/ \E th \in Threads, q \in CacheQueries : WrapperGet(th, q, taxonomy)
    \/ \E th \in Threads, q \in CacheQueries : WrapperGetKeyError(th, q, taxonomy)
    \/ \E th \in Threads : MissRead(th)
    \/ \E th \in Threads : MissWrite(th)
    \/ \E th \in Threads, r \in Responses : WrapperClassify(th, r)
    \/ \E th \in Threads : WrapperClassifyRaises(th)
    \/ \E th \in Threads : WrapperSet(th)
    \/ Tick

SpecMemo == Init /\ [][MemoNext]_vars

(***************************************************************************)
(* PerformanceMonitor: track_request, cleanup_inactive_users_safe,         *)
(* get_stats and should_throttle, each called by any thread that is not    *)
(* inside another call.  Every method body runs under                      *)
(* self.lock; the lock is held across steps only by get_stats in full      *)
(* mode, which calls cleanup_inactive_users_safe (a timed acquire of the   *)
(* same, non-reentrant lock) while holding it.                             *)
(***************************************************************************)
RECURSIVE SumSeq(_)
SumSeq(s) == IF s = <<>> THEN 0 ELSE Head(s) + SumSeq(Tail(s))

RECURSIVE SumCount(_, _)
SumCount(rc, S) ==
    IF S = {} THEN 0
    ELSE LET u == CHOOSE x \in S : TRUE IN rc[u] + SumCount(rc, S \ {u})

\* deque(maxlen).append
deque_append(d, x) == IF Len(d) >= DequeLen THEN Append(Tail(d), x) ELSE Append(d, x)

\* user_last_activity[user_id] = t: an existing key keeps its place in the dict
activity_set(ula, user, t) ==
    IF \E i \in 1..Len(ula) : ula[i].user_id = user
    THEN [i \in 1..Len(ula) |-> IF ula[i].user_id = user
                                THEN [user_id |-> user, last_activity |-> t] ELSE ula[i]]
    ELSE Append(ula, [user_id |-> user, last_activity |-> t])

\* avg_response_time > response_time_limit, with the average 0 for an empty deque
avg_high(d) == d # <<>> /\ SumSeq(d) > response_time_limit * Len(d)

\* the loop of cleanup_inactive_users_safe: the first BatchCap idle users among the
\* first ScanCap entries
users_to_remove(ula, t, timeout) ==
    LET items == SubSeq(ula, 1, IF Len(ula) < ScanCap THEN Len(ula) ELSE ScanCap)
        idle  == {i \in 1..Len(items) : t - items[i].last_activity > timeout}
        taken == {i \in idle : Cardinality({j \in idle : j < i}) < BatchCap}
    IN  {items[i].user_id : i \in taken}

\* cleanup_inactive_users_safe that removes without holding the lock (mutant)
cleanup_inactive_users_unlocked(acquired, au, ula, t, timeout) ==
    LET rm == users_to_remove(ula, t, timeout)
    IN  [active_users |-> au \ rm,
         user_last_activity |-> SelectSeq(ula, LAMBDA e : e.user_id \notin rm),
         n |-> Cardinality(rm)]

\* cleanup_inactive_users_safe(timeout) when lock.acquire(timeout=0.1) gives acquired
cleanup_inactive_users_safe(acquired, au, ula, t, timeout) ==
    IF acquired
    THEN LET rm == users_to_remove(ula, t, timeout)
         IN  [active_users |-> au \ rm,
              user_last_activity |-> SelectSeq(ula, LAMBDA e : e.user_id \notin rm),
              n |-> Cardinality(rm)]
    ELSE [active_users |-> au, user_last_activity |-> ula, n |-> 0]

\* should_throttle that tests the CPU before the memory (mutant)
throttle_decision_cpu_first(stats) ==
    IF stats.debug_mode
    THEN IF stats.active_users > max_users
         THEN [ret |-> TRUE, reason |-> "Too many concurrent users"]
         ELSE [ret |-> FALSE, reason |-> ""]
    ELSE IF stats.cpu > cpu_limit THEN [ret |-> TRUE, reason |-> "High CPU usage"]
    ELSE IF stats.memory > memory_limit THEN [ret |-> TRUE, reason |-> "High memory usage"]
    ELSE IF stats.avg_high THEN [ret |-> TRUE, reason |-> "High response time"]
    ELSE IF stats.active_users > max_users
         THEN [ret |-> TRUE, reason |-> "Too many concurrent users"]
    ELSE [ret |-> FALSE, reason |-> ""]

\* should_throttle that tests the user count with >= (mutant)
throttle_decision_ge(stats) ==
    IF stats.debug_mode
    THEN IF stats.active_users >= max_users
         THEN [ret |-> TRUE, reason |-> "Too many concurrent users"]
         ELSE [ret |-> FALSE, reason |-> ""]
    ELSE IF stats.memory > memory_limit THEN [ret |-> TRUE, reason |-> "High memory usage"]
    ELSE IF stats.cpu > cpu_limit THEN [ret |-> TRUE, reason |-> "High CPU usage"]
    ELSE IF stats.avg_high THEN [ret |-> TRUE, reason |-> "High response time"]
    ELSE IF stats.active_users >= max_users
         THEN [ret |-> TRUE, reason |-> "Too many concurrent users"]
    ELSE [ret |-> FALSE, reason |-> ""]

\* should_throttle that reports no violation in safe mode (mutant)
throttle_decision_off(stats) ==
    IF stats.debug_mode THEN [ret |-> FALSE, reason |-> ""]
    ELSE IF stats.memory > memory_limit THEN [ret |-> TRUE, reason |-> "High memory usage"]
    ELSE IF stats.cpu > cpu_limit THEN [ret |-> TRUE, reason |-> "High CPU usage"]
    ELSE IF stats.avg_high THEN [ret |-> TRUE, reason |-> "High response time"]
    ELSE IF stats.active_users > max_users
         THEN [ret |-> TRUE, reason |-> "Too many concurrent users"]
    ELSE [ret |-> FALSE, reason |-> ""]

\* should_throttle, lines 151-166, on the stats get_stats returned
throttle_decision(stats) ==
    IF stats.debug_mode
    THEN IF stats.active_users > max_users
         THEN [ret |-> TRUE, reason |-> "Too many concurrent users"]
         ELSE [ret |-> FALSE, reason |-> ""]
    ELSE IF stats.memory > memory_limit THEN [ret |-> TRUE, reason |-> "High memory usage"]
    ELSE IF stats.cpu > cpu_limit THEN [ret |-> TRUE, reason |-> "High CPU usage"]
    ELSE IF stats.avg_high THEN [ret |-> TRUE, reason |-> "High response time"]
    ELSE IF stats.active_users > max_users
         THEN [ret |-> TRUE, reason |-> "Too many concurrent users"]
    ELSE [ret |-> FALSE, reason |-> ""]

\* the body of track_request(user_id, response_time), lines 34-39
track_request(user, response_time) ==
    /\ request_count' = [request_count EXCEPT ![user] = @ + 1]
    /\ response_times' = deque_append(response_times, response_time)
    /\ active_users' = active_users \cup {user}
    /\ user_last_activity' = activity_set(user_last_activity, user, now)
    /\ dropped' = (dropped /\ Cardinality(active_users') <= max_users)

\* track_request(user_id, response_time)
TrackRequest(user, response_time) ==
    /\ UNCHANGED notMonitor
    /\ {th \in Threads : pc[th] = "idle"} # {}
    /\ mlock = None
    /\ SumCount(request_count, Users) < MaxTracks
    /\ track_request(user, response_time)
    /\ UNCHANGED <<now, pc, mlock, slast>>

\* cleanup_inactive_users_safe(timeout_seconds) called on its own: the timed acquire
\* fails while another thread keeps the lock
CleanupInactive ==
    /\ UNCHANGED notMonitor
    /\ {th \in Threads : pc[th] = "idle"} # {}
    /\ LET r == cleanup_inactive_users_safe(mlock = None, active_users, user_last_activity,
                                            now, timeout_seconds)
       IN  /\ active_users' = r.active_users
           /\ user_last_activity' = r.user_last_activity
           /\ slast' = [NoStats EXCEPT !.op = "cleanup", !.n = r.n,
                                       !.acquired = (mlock = None),
                                       !.active_users = Cardinality(r.active_users)]
           /\ dropped' = \/ dropped
                         \/ /\ Cardinality(active_users) > max_users
                            /\ Cardinality(r.active_users) <= max_users
    /\ UNCHANGED <<now, pc, response_times, request_count, mlock>>

\* should_throttle with get_stats_safe: safe_mode=True, or psutil.virtual_memory() raised
ShouldThrottleSafe(safe_mode, memory_raises) ==
    /\ UNCHANGED notMonitor
    /\ {th \in Threads : pc[th] = "idle"} # {}
    /\ mlock = None
    /\ safe_mode \/ memory_raises
    /\ LET stats == [debug_mode |-> TRUE, active_users |-> Cardinality(active_users),
                     memory |-> 0, cpu |-> 0, avg_high |-> avg_high(response_times)]
           d     == throttle_decision(stats)
       IN  slast' = [op |-> "should_throttle", debug_mode |-> TRUE,
                     active_users |-> stats.active_users, memory |-> 0, cpu |-> 0,
                     avg_high |-> stats.avg_high, ret |-> d.ret, reason |-> d.reason,
                     dropped |-> dropped, n |-> 0, acquired |-> FALSE]
    /\ UNCHANGED <<now, pc, active_users, user_last_activity, response_times, request_count,
                   mlock, dropped>>

\* should_throttle(safe_mode=False): get_stats takes the lock (the memory and CPU
\* samples it took just before are inputs of the next step) ...
FullStatsAcquire(th) ==
    /\ UNCHANGED notMonitor
    /\ pc[th] = "idle"
    /\ mlock = None
    /\ mlock' = th
    /\ pc' = [pc EXCEPT ![th] = "st_locked"]
    /\ UNCHANGED <<now, active_users, user_last_activity, response_times, request_count,
                   slast, dropped>>

\* ... and under the lock computes the average, calls cleanup_inactive_users_safe()
\* (default timeout 300 s), builds the stats, releases the lock; should_throttle decides
FullStatsBody(th, memory, cpu) ==
    /\ UNCHANGED notMonitor
    /\ pc[th] = "st_locked"
    /\ LET r     == cleanup_inactive_users_safe(mlock = None, active_users, user_last_activity,
                                                now, timeout_seconds)
           stats == [debug_mode |-> FALSE, active_users |-> Cardinality(r.active_users),
                     memory |-> memory, cpu |-> cpu,
                     avg_high |-> avg_high(response_times)]
           d     == throttle_decision(stats)
       IN  /\ active_users' = r.active_users
           /\ user_last_activity' = r.user_last_activity
           /\ slast' = [op |-> "should_throttle", debug_mode |-> FALSE,
                        active_users |-> stats.active_users, memory |-> stats.memory,
                        cpu |-> stats.cpu, avg_high |-> stats.avg_high, ret |-> d.ret,
                        reason |-> d.reason, dropped |-> dropped, n |-> r.n,
                        acquired |-> (mlock = None)]
    /\ mlock' = None
    /\ pc' = [pc EXCEPT ![th] = "idle"]
    /\ UNCHANGED <<now, response_times, request_count, dropped>>

MonitorNext ==
    \/ \E u \in Users, rt \in ResponseTimeSamples : TrackRequest(u, rt)
    \/ CleanupInactive
    \/ \E sm \in BOOLEAN, mr \in BOOLEAN : ShouldThrottleSafe(sm, mr)
    \/ \E th \in Threads : FullStatsAcquire(th)
    \/ \E th \in Threads, m \in MemorySamples, c \in CpuSamples : FullStatsBody(th, m, c)
    \/ Tick

SpecMonitor == Init /\ [][MonitorNext]_vars

(***************************************************************************)
(* The locks.  GPTCache.get and GPTCache.set take GPTCache.lock with       *)
(* "with self.lock:" around their bodies; the cached wrapper calls get,    *)
(* the service function and set one after the other.  Here a lock section  *)
(* is two steps: the thread takes the lock, then runs the body and leaves  *)
(* the "with" block.  The statements outside a lock section are steps of   *)
(* their own: the miss counted when the key cannot be derived, and         *)
(* gpt_cache.cache.clear() of the clear_cache route and of                 *)
(* init_openai_client.                                                     *)
(***************************************************************************)
\* leaving "with self.lock:" with the lock still held (mutant)
lock_release_kept(th) == th

\* leaving "with self.lock:" with the lock released by the first thread only (mutant)
lock_release_first_only(th) == IF th = "t1" THEN None ELSE th

\* leaving "with self.lock:": the holder of the lock afterwards
lock_release(th) == None

\* gpt_cache.get(text, taxonomy_data) of the wrapper, key derived: line 38, the thread
\* takes the lock ...
LockedGetAcquire(th, text, taxonomy_data) ==
    /\ UNCHANGED notLocks
    /\ pc[th] = "idle"
    /\ ops < MaxOps
    /\ ops' = ops + 1
    /\ ~generate_key_raises(text, taxonomy_data)
    /\ glock = None
    /\ glock' = th
    /\ pc' = [pc EXCEPT ![th] = "l_get"]
    /\ wr' = [wr EXCEPT ![th] = [text |-> text, taxonomy_data |-> taxonomy_data,
                                 categories |-> None, expect |-> {}]]
    /\ UNCHANGED <<cache, cache_hits, cache_misses, now, tmp, last, set_at, lru, wlast, returned>>

\* ... runs lines 39-53 and leaves the block; "if categories:" returns the hit or goes on
\* to the service function
LockedGetBody(th) ==
    /\ UNCHANGED notLocks
    /\ pc[th] = "l_get"
    /\ glock = th
    /\ GetCore(wr[th].text, wr[th].taxonomy_data)
    /\ glock' = lock_release(th)
    /\ \E r \in {get_locked(cache, KeyOf(wr[th].text, wr[th].taxonomy_data), now)} :
           IF Truthy(r.ret)
           THEN /\ pc' = [pc EXCEPT ![th] = "idle"]
                /\ wr' = [wr EXCEPT ![th] = NoCall]
           ELSE /\ pc' = [pc EXCEPT ![th] = "w_classify"]
                /\ wr' = [wr EXCEPT ![th].categories = r.ret]
    /\ UNCHANGED <<ops, lru, wlast, returned>>

\* gpt_cache.set(text, taxonomy_data, categories), key derived: line 67, the thread takes
\* the lock ...
LockedSetAcquire(th) ==
    /\ UNCHANGED notLocks
    /\ pc[th] = "w_set"
    /\ ~generate_key_raises(wr[th].text, wr[th].taxonomy_data)
    /\ glock = None
    /\ glock' = th
    /\ pc' = [pc EXCEPT ![th] = "l_set"]
    /\ UNCHANGED <<cache, cache_hits, cache_misses, now, tmp, ops, last, set_at, lru, memoVars>>

\* ... runs lines 68-78 and leaves the block; the wrapper returns
LockedSetBody(th) ==
    /\ UNCHANGED notLocks
    /\ pc[th] = "l_set"
    /\ glock = th
    /\ SetCore(wr[th].text, wr[th].taxonomy_data, wr[th].categories)
    /\ glock' = lock_release(th)
    /\ pc' = [pc EXCEPT ![th] = "idle"]
    /\ wr' = [wr EXCEPT ![th] = NoCall]
    /\ UNCHANGED <<ops, lru, wlast, returned>>

\* gpt_cache.set when _generate_key raises: lines 60-65 return False before the lock
SetKeyError(th) ==
    /\ UNCHANGED notLocks
    /\ pc[th] = "w_set"
    /\ generate_key_raises(wr[th].text, wr[th].taxonomy_data)
    /\ SetCore(wr[th].text, wr[th].taxonomy_data, wr[th].categories)
    /\ pc' = [pc EXCEPT ![th] = "idle"]
    /\ wr' = [wr EXCEPT ![th] = NoCall]
    /\ UNCHANGED <<glock, ops, lru, wlast, returned>>

\* the clear_cache route (app.py lines 608-615) and init_openai_client (lines 117-122):
\* gpt_cache.cache.clear(), a statement of the caller outside any lock section ...
ClearCache(th) ==
    /\ UNCHANGED notLocks
    /\ pc[th] = "idle"
    /\ ops < MaxOps
    /\ ops' = ops + 1
    /\ cache' = <<>>
    /\ last' = [NoEvent EXCEPT !.op = "clear", !.time = now, !.ok = TRUE]
    /\ pc' = [pc EXCEPT ![th] = "reset_stats"]
    /\ UNCHANGED <<glock, cache_hits, cache_misses, now, tmp, set_at, lru, memoVars>>

\* ... then gpt_cache.reset_stats(): the thread takes the lock (gpt_cache.py line 148) ...
ResetStatsAcquire(th) ==
    /\ UNCHANGED notLocks
    /\ pc[th] = "reset_stats"
    /\ glock = None
    /\ glock' = th
    /\ pc' = [pc EXCEPT ![th] = "l_reset"]
    /\ UNCHANGED <<cache, cache_hits, cache_misses, now, tmp, ops, last, set_at, lru, memoVars>>

\* ... and sets both counters to 0
ResetStatsBody(th) ==
    /\ UNCHANGED notLocks
    /\ pc[th] = "l_reset"
    /\ glock = th
    /\ cache_hits' = 0
    /\ cache_misses' = 0
    /\ glock' = lock_release(th)
    /\ pc' = [pc EXCEPT ![th] = "idle"]
    /\ UNCHANGED <<cache, now, tmp, ops, last, set_at, lru, memoVars>>

\* the texts of the wrapper calls: one with a key, one without
LockQueries == {PyStr("a"), PyInt("7")}

\* two threads in cached wrapper calls, cache clears and should_throttle calls (memory
\* and CPU at their limits)
LocksNext ==
    \/ \E th \in Threads, q \in LockQueries : LockedGetAcquire(th, q, taxonomy)
    \/ \E th \in Threads : LockedGetBody(th)
    \/ \E th \in Threads, q \in LockQueries : WrapperGetKeyError(th, q, taxonomy)
    \/ \E th \in Threads : MissRead(th)
    \/ \E th \in Threads : MissWrite(th)
    \/ \E th \in Threads, r \in Responses : WrapperClassify(th, r)
    \/ \E th \in Threads : WrapperClassifyRaises(th)
    \/ \E th \in Threads : LockedSetAcquire(th)
    \/ \E th \in Threads : LockedSetBody(th)
    \/ \E th \in Threads : SetKeyError(th)
    \/ \E th \in Threads : ClearCache(th)
    \/ \E th \in Threads : ResetStatsAcquire(th)
    \/ \E th \in Threads : ResetStatsBody(th)
    \/ \E th \in Threads : FullStatsAcquire(th)
    \/ \E th \in Threads : FullStatsBody(th, memory_limit, cpu_limit)
    \/ Tick

SpecLocks == Init /\ [][LocksNext]_vars

(***************************************************************************)
(* Text matching (utils/text_matching.py).                                 *)
(*                                                                         *)
(* A score of smart_keyword_match is a number of ScoreUnit-ths: 1.0 is     *)
(* ScoreUnit, 0.9 is 27, 0.8 is 24, a third is 10.                         *)
(***************************************************************************)
ScoreUnit == 30

DigitSeq == <<"0", "1", "2", "3", "4", "5", "6", "7", "8", "9">>

IsDigit(c) == \E i \in 1..10 : DigitSeq[i] = c

DigitValue(c) == (CHOOSE i \in 1..10 : DigitSeq[i] = c) - 1

\* str.isalpha() on one character
IsAlpha(c) == \E i \in 1..Len(LowerSeq) : LowerSeq[i] = c \/ UpperSeq[i] = c

\* a character of the regular-expression class \w
IsWord(c) == IsAlpha(c) \/ IsDigit(c) \/ c = "_"

\* str.upper() on one character
UpperChar(c) ==
    IF \E i \in 1..Len(LowerSeq) : LowerSeq[i] = c
    THEN UpperSeq[CHOOSE i \in 1..Len(LowerSeq) : LowerSeq[i] = c]
    ELSE c

\* sub in s
Contains(s, sub) ==
    \E i \in 1..(Len(s) - Len(sub) + 1) : SubSeq(s, i, i + Len(sub) - 1) = sub

\* s.startswith(prefix)
StartsWith(s, prefix) ==
    Len(prefix) <= Len(s) /\ SubSeq(s, 1, Len(prefix)) = prefix

\* the regular-expression assertion \b between s[i] and s[i+1]
Boundary(s, i) ==
    LET before == i >= 1 /\ i <= Len(s) /\ IsWord(Char(s, i))
        after == i + 1 >= 1 /\ i + 1 <= Len(s) /\ IsWord(Char(s, i + 1))
    IN  before # after

\* re.search(r'\b' + re.escape(word) + r'\b', s)
SearchWord(word, s) ==
    \E i \in 1..(Len(s) - Len(word) + 1) :
        /\ SubSeq(s, i, i + Len(word) - 1) = word
        /\ Boundary(s, i - 1)
        /\ Boundary(s, i + Len(word) - 1)

\* unicodedata.normalize('NFD', c) without its combining marks
AccentedSeq == <<"É", "È", "À", "Ç", "é", "è", "à", "ç">>
UnaccentedSeq == <<"E", "E", "A", "C", "e", "e", "a", "c">>

StripAccent(c) ==
    IF \E i \in 1..Len(AccentedSeq) : AccentedSeq[i] = c
    THEN UnaccentedSeq[CHOOSE i \in 1..Len(AccentedSeq) : AccentedSeq[i] = c]
    ELSE c

\* ''.join(f(c) for c in s if keep(c)), for the character maps below
RECURSIVE StripAccents(_)
StripAccents(s) ==
    IF s = "" THEN "" ELSE StripAccent(Char(s, 1)) \o StripAccents(SubSeq(s, 2, Len(s)))

Honorifics == {"auteur", "narrateur", "traducteur", "editeur", "dr", "prof", "mr", "mrs", "ms", "sir", "lady"}

HonorificAt(s, i, w) ==
    /\ i + Len(w) - 1 <= Len(s)
    /\ SubSeq(s, i, i + Len(w) - 1) = w
    /\ Boundary(s, i - 1)
    /\ Boundary(s, i + Len(w) - 1)

\* re.sub(r'\b(auteur|...|lady)\b', '', s), scanning from position i
RECURSIVE RemoveHonorifics(_, _)
RemoveHonorifics(s, i) ==
    IF i > Len(s) THEN ""
    ELSE LET ws == {w \in Honorifics : HonorificAt(s, i, w)}
         IN  IF ws # {}
             THEN RemoveHonorifics(s, i + Len(CHOOSE w \in ws : TRUE))
             ELSE Char(s, i) \o RemoveHonorifics(s, i + 1)

\* re.sub(r'[(),]', '', s)
RECURSIVE RemovePunctuation(_)
RemovePunctuation(s) ==
    IF s = "" THEN ""
    ELSE (IF Char(s, 1) \in {"(", ")", ","} THEN "" ELSE Char(s, 1))
         \o RemovePunctuation(SubSeq(s, 2, Len(s)))

\* re.sub(r'\s+', ' ', s)
RECURSIVE CollapseSpaces(_)
CollapseSpaces(s) ==
    IF s = "" THEN ""
    ELSE IF IsSpace(Char(s, 1))
         THEN IF Len(s) >= 2 /\ IsSpace(Char(s, 2))
              THEN CollapseSpaces(SubSeq(s, 2, Len(s)))
              ELSE " " \o CollapseSpaces(SubSeq(s, 2, Len(s)))
         ELSE Char(s, 1) \o CollapseSpaces(SubSeq(s, 2, Len(s)))

normalize_text(text) ==
    IF text = "" THEN ""
    ELSE LET lowered == Strip(Lower(StripAccents(text)))
             cleaned == RemovePunctuation(RemoveHonorifics(lowered, 1))
         IN  Strip(CollapseSpaces(cleaned))

\* str.split(): the maximal runs of non-whitespace characters, in order
RECURSIVE Split(_)
Split(s) ==
    LET t == Strip(s)
        sp == {i \in 1..Len(t) : IsSpace(Char(t, i))}
    IN  IF t = "" THEN <<>>
        ELSE IF sp = {} THEN <<t>>
        ELSE LET k == CHOOSE i \in sp : \A j \in sp : i <= j
             IN  <<SubSeq(t, 1, k - 1)>> \o Split(SubSeq(t, k + 1, Len(t)))

\* s.replace('.', '')
RECURSIVE RemoveDots(_)
RemoveDots(s) ==
    IF s = "" THEN ""
    ELSE (IF Char(s, 1) = "." THEN "" ELSE Char(s, 1)) \o RemoveDots(SubSeq(s, 2, Len(s)))

\* str.isalpha(): non-empty and every character a letter
AllAlpha(s) == s # "" /\ \A i \in 1..Len(s) : IsAlpha(Char(s, i))

RECURSIVE Upper(_)
Upper(s) == IF s = "" THEN "" ELSE UpperChar(Char(s, 1)) \o Upper(SubSeq(s, 2, Len(s)))

\* list.index(x): position (from 0) of the first element equal to x
ListIndex(parts, x) == (CHOOSE i \in 1..Len(parts) : parts[i] = x /\ \A j \in 1..(i - 1) : parts[j] # x) - 1

\* the loop of extract_initials_and_names from part i on: the entries of the list kind
RECURSIVE SelectParts(_, _, _)
SelectParts(parts, i, kind) ==
    IF i > Len(parts) THEN <<>>
    ELSE (IF Len(parts[i]) <= 2 /\ AllAlpha(RemoveDots(parts[i]))
          THEN IF kind = "initials" THEN <<Upper(RemoveDots(parts[i]))>> ELSE <<>>
          ELSE IF Len(parts[i]) > 2
          THEN IF ListIndex(parts, parts[i]) >= Len(parts) \div 2
               THEN IF kind = "last_names" THEN <<parts[i]>> ELSE <<>>
               ELSE IF kind = "first_names" THEN <<parts[i]>> ELSE <<>>
          ELSE <<>>)
         \o SelectParts(parts, i + 1, kind)

\* if not result['initials'] and result['first_names']: one initial per first name
generated_initials(initials, first_names) ==
    IF initials = <<>>
    THEN [i \in 1..Len(first_names) |-> UpperChar(Char(first_names[i], 1)) \o "."]
    ELSE initials

\* extract_initials_and_names once normalized.split() gave parts
names_of_parts(parts) ==
    [initials |-> generated_initials(SelectParts(parts, 1, "initials"),
                                     SelectParts(parts, 1, "first_names")),
     first_names |-> SelectParts(parts, 1, "first_names"),
     last_names |-> SelectParts(parts, 1, "last_names"),
     all_parts |-> parts]

extract_initials_and_names(author_name) == names_of_parts(Split(normalize_text(author_name)))

\* author_similarity_score, lines 123-162, on the extracted parts q and b: each loop
\* adds its weight once per query part that has a match; the sum counted in fifths
\* (0.4 per last name, 0.2 per first-name hit) and returned as min(score / 0.6, 1.0)
parts_score(q, b) ==
    LET lasts == Cardinality({i \in 1..Len(q.last_names) :
                     \E j \in 1..Len(b.last_names) : q.last_names[i] = b.last_names[j]})
        case1 == Cardinality({i \in 1..Len(q.initials) :
                     \E j \in 1..Len(b.first_names) :
                         StartsWith(b.first_names[j], Lower(q.initials[i]))})
        case2 == Cardinality({i \in 1..Len(q.first_names) :
                     \E j \in 1..Len(b.initials) :
                         StartsWith(q.first_names[i], Lower(b.initials[j]))})
        case3 == Cardinality({i \in 1..Len(q.first_names) :
                     \E j \in 1..Len(b.first_names) : q.first_names[i] = b.first_names[j]})
        fifths == 2 * lasts + case1 + case2 + case3
    IN  IF fifths >= 3 THEN ScoreUnit ELSE (fifths * ScoreUnit) \div 3

\* author_similarity_score, lines 112-117, on the normalized names
normalized_match(norm_query, norm_book) ==
    \/ norm_query = norm_book
    \/ Contains(norm_book, norm_query)
    \/ Contains(norm_query, norm_book)

author_similarity_score(query_author, book_author) ==
    IF query_author = "" \/ book_author = "" THEN 0
    ELSE IF normalized_match(normalize_text(query_author), normalize_text(book_author))
    THEN ScoreUnit
    ELSE parts_score(extract_initials_and_names(query_author),
                     extract_initials_and_names(book_author))

\* re.sub(r'\D', '', s)
RECURSIVE OnlyDigits(_)
OnlyDigits(s) ==
    IF s = "" THEN ""
    ELSE (IF IsDigit(Char(s, 1)) THEN Char(s, 1) ELSE "") \o OnlyDigits(SubSeq(s, 2, Len(s)))

\* int(digits), for a non-empty string of digits
RECURSIVE ParseInt(_)
ParseInt(digits) ==
    IF digits = "" THEN 0
    ELSE 10 * ParseInt(SubSeq(digits, 1, Len(digits) - 1)) + DigitValue(Char(digits, Len(digits)))

more_than_patterns == {"plus", "plus de", "plus que", "more than", "more", "over", "above", "minimum"}
less_than_patterns == {"moins", "moins de", "moins que", "less than", "less", "under", "below", "maximum", "max"}
after_patterns == {"après", "apres", "after", "since", "from", "starting", "minimum", "plus récent", "plus recent"}
before_patterns == {"avant", "before", "until", "prior", "maximum", "max", "plus ancien", "older"}

\* any(pattern in text for pattern in patterns)
AnyPattern(patterns, text) == \E p \in patterns : Contains(text, p)

\* compare_numbers that reads no comparison word in the query (mutant)
compare_numbers_unread(q, b, query_lower, more, less, near) ==
    IF q = b THEN ScoreUnit
    ELSE IF q - b <= 10 /\ b - q <= 10 THEN near
    ELSE 0

\* the pages and parution branches on the parsed numbers q and b: near is the score
\* of a value within 10 of the query without a comparison word (0 for parution)
compare_numbers(q, b, query_lower, more, less, near) ==
    IF AnyPattern(more, query_lower)
    THEN IF b >= q THEN ScoreUnit ELSE 0
    ELSE IF AnyPattern(less, query_lower)
    THEN IF b <= q THEN ScoreUnit ELSE 0
    ELSE IF q = b THEN ScoreUnit
    ELSE IF q - b <= 10 /\ b - q <= 10 THEN near
    ELSE 0

\* int('') raises ValueError, caught: 0.0
numeric_match(query_value, book_field, more, less, near) ==
    IF OnlyDigits(query_value) = "" \/ OnlyDigits(book_field) = "" THEN 0
    ELSE compare_numbers(ParseInt(OnlyDigits(query_value)), ParseInt(OnlyDigits(book_field)),
                         Lower(query_value), more, less, near)

\* field_match that scores a title contained in the other as an exact match (mutant)
field_match_partial_full(query_value, query_lower, book_field, book_lower, field) ==
    IF field \in {"titre", "title"}
    THEN IF \/ query_lower = book_lower
            \/ Contains(book_lower, query_lower)
            \/ Contains(query_lower, book_lower)
         THEN ScoreUnit
         ELSE 0
    ELSE IF field \in {"langue", "language"}
    THEN IF query_lower = book_lower THEN ScoreUnit ELSE 0
    ELSE 0

\* the branches of smart_keyword_match other than the author's, on the lowered and
\* stripped values
field_match(query_value, query_lower, book_field, book_lower, field) ==
    IF field \in {"titre", "title"}
    THEN IF query_lower = book_lower THEN ScoreUnit
         ELSE IF Contains(book_lower, query_lower) \/ Contains(query_lower, book_lower)
         THEN 24
         ELSE 0
    ELSE IF field \in {"pages", "page count", "nombre de pages"}
    THEN numeric_match(query_value, book_field, more_than_patterns, less_than_patterns, 27)
    ELSE IF field \in {"parution", "publication year", "année de parution"}
    THEN numeric_match(query_value, book_field, after_patterns, before_patterns, 0)
    ELSE IF field \in {"langue", "language"}
    THEN IF query_lower = book_lower THEN ScoreUnit ELSE 0
    ELSE IF field \in {"editeur", "publisher"}
    THEN IF query_lower = book_lower THEN ScoreUnit
         ELSE IF Contains(book_lower, query_lower) \/ Contains(query_lower, book_lower)
         THEN 24
         ELSE 0
    ELSE IF field \in {"categorie", "category", "genre"}
    THEN IF SearchWord(query_lower, book_lower) THEN ScoreUnit ELSE 0
    ELSE IF field \in {"resume", "summary", "description"}
    THEN IF SearchWord(Strip(query_value), book_lower) THEN ScoreUnit ELSE 0
    ELSE 0

smart_keyword_match(query_value, book_field, field_name) ==
    IF query_value = "" \/ book_field = "" THEN 0
    ELSE IF field_name = "auteur" \/ Contains(Lower(field_name), "author")
    THEN author_similarity_score(query_value, book_field)
    ELSE field_match(query_value, Strip(Lower(query_value)), book_field, Strip(Lower(book_field)),
                     Lower(field_name))

(***************************************************************************)
(* A book is a record of string fields; a field it lacks reads as "", as   *)
(* falsy as the None of dict.get.  The value of a keyword is a list of     *)
(* variants or one string.                                                 *)
(***************************************************************************)
BookGet(book, key) == IF key \in DOMAIN book THEN book[key] ELSE ""

KwList(variants) == [type |-> "list", v |-> variants]
KwStr(s) == [type |-> "str", v |-> <<s>>]

\* not keyword_values
KwFalsy(values) == values.v = <<>> \/ (values.type = "str" /\ values.v = <<"">>)

\* for keyword_variant in keyword_values: ... if match_score > 0: break
\* adds the score of the first variant that matches, or nothing
RECURSIVE variant_loop(_, _, _, _)
variant_loop(variants, i, book_field, field_name) ==
    IF i > Len(variants) THEN 0
    ELSE IF smart_keyword_match(variants[i], book_field, field_name) > 0
    THEN smart_keyword_match(variants[i], book_field, field_name)
    ELSE variant_loop(variants, i + 1, book_field, field_name)

\* the 'resume' loop runs when the 'categorie' loop left match_score at 0
categorie_then_resume(categorie_score, variants, resume_field) ==
    IF categorie_score = 0 /\ resume_field # ""
    THEN variant_loop(variants, 1, resume_field, "resume")
    ELSE categorie_score

\* what one item of the keyword map adds to tot_match_score
item_score(keyword_key, variants, book) ==
    IF keyword_key = "categorie"
    THEN categorie_then_resume(
             IF BookGet(book, "categorie") # ""
             THEN variant_loop(variants, 1, BookGet(book, "categorie"), "categorie")
             ELSE 0,
             variants, BookGet(book, "resume"))
    ELSE variant_loop(variants, 1, BookGet(book, keyword_key), keyword_key)

\* the two continue statements of the loop
item_skipped(keyword_key, keyword_values, book) ==
    \/ KwFalsy(keyword_values)
    \/ keyword_key # "categorie" /\ BookGet(book, keyword_key) = ""

\* the loop of calculate_keyword_score from item i on
RECURSIVE keyword_loop(_, _, _, _, _, _)
keyword_loop(items, book, fields, i, tot_match_score, has_title_author_match) ==
    IF i > Len(items)
    THEN [tot_match_score |-> tot_match_score, has_title_author_match |-> has_title_author_match]
    ELSE IF item_skipped(items[i].key, items[i].values, book)
    THEN keyword_loop(items, book, fields, i + 1, tot_match_score, has_title_author_match)
    ELSE keyword_loop(items, book, fields, i + 1,
                      tot_match_score + item_score(items[i].key, items[i].values.v, book),
                      \/ has_title_author_match
                      \/ /\ items[i].key \in fields
                         /\ tot_match_score + item_score(items[i].key, items[i].values.v, book) > 0)

\* a score is the fraction num/den
Score(num, den) == [num |-> num, den |-> den]

ScoreGeq(a, b) == a.num * b.den >= b.num * a.den

\* lines 370-375: tot_match_score / len(keyword_items), on the side the flag selects
split_score(r, n) ==
    IF r.has_title_author_match
    THEN [title_author_score |-> IF n > 0 THEN Score(r.tot_match_score, ScoreUnit * n) ELSE Score(0, 1),
          other_keyword_score |-> Score(0, 1)]
    ELSE [title_author_score |-> Score(0, 1),
          other_keyword_score |-> IF n > 0 THEN Score(r.tot_match_score, ScoreUnit * n) ELSE Score(0, 1)]

calculate_keyword_score(items, book, fields) ==
    split_score(keyword_loop(items, book, fields, 1, 0, FALSE), Len(items))

\* sorted() without reverse=True: ascending, equal scores in their order (mutant)
RECURSIVE sorted_asc(_)
sorted_asc(entries) ==
    IF entries = <<>> THEN <<>>
    ELSE LET low == CHOOSE i \in 1..Len(entries) :
                       /\ \A j \in 1..Len(entries) : ScoreGeq(entries[j].score, entries[i].score)
                       /\ \A j \in 1..(i - 1) : ~ScoreGeq(entries[i].score, entries[j].score)
         IN  <<entries[low]>> \o sorted_asc(RemoveAt(entries, low))

\* the position in entries of the entry sorted() puts first: the first of the best
first_best(entries) ==
    CHOOSE i \in 1..Len(entries) :
        /\ \A j \in 1..Len(entries) : ScoreGeq(entries[i].score, entries[j].score)
        /\ \A j \in 1..(i - 1) : ~ScoreGeq(entries[j].score, entries[i].score)

\* sorted(entries, key=score, reverse=True): descending, equal scores in
\* their order in entries
RECURSIVE sorted_desc(_)
sorted_desc(entries) ==
    IF entries = <<>> THEN <<>>
    ELSE <<entries[first_best(entries)]>>
         \o sorted_desc(RemoveAt(entries, first_best(entries)))

\* {**book, "score": score}
Scored(book, score) == [book |-> book, score |-> score]

\* the tiers with a title/author match admitted on any positive score (mutant)
keyword_tier_weak(scores) ==
    IF scores.title_author_score.num > 0 THEN "title_author"
    ELSE IF scores.title_author_score.num = 0 /\ ScoreGeq(scores.other_keyword_score, Score(1, 1))
    THEN "other"
    ELSE "none"

\* the tiers with the thresholds "> 0" in place of ">= 1.0" (mutant)
keyword_tier_positive(scores) ==
    IF scores.title_author_score.num > 0 THEN "title_author"
    ELSE IF scores.title_author_score.num = 0 /\ scores.other_keyword_score.num > 0
    THEN "other"
    ELSE "none"

\* lines 543-548: the list the scores put a book in, "none" for neither
keyword_tier(scores) ==
    IF ScoreGeq(scores.title_author_score, Score(1, 1)) THEN "title_author"
    ELSE IF scores.title_author_score.num = 0 /\ ScoreGeq(scores.other_keyword_score, Score(1, 1))
    THEN "other"
    ELSE "none"

\* the entry a book with these scores adds to the list tier
tier_entry(book, scores, tier) ==
    IF keyword_tier(scores) # tier THEN <<>>
    ELSE IF tier = "title_author" THEN <<Scored(book, scores.title_author_score)>>
    ELSE <<Scored(book, scores.other_keyword_score)>>

\* the loop of filter_books_by_keywords from book i on: the entries of the list tier
RECURSIVE filter_loop(_, _, _, _, _)
filter_loop(books, items, fields, i, tier) ==
    IF i > Len(books) THEN <<>>
    ELSE (IF \E k \in 1..Len(items) : BookGet(books[i], items[k].key) # ""
          THEN tier_entry(books[i], calculate_keyword_score(items, books[i], fields), tier)
          ELSE <<>>)
         \o filter_loop(books, items, fields, i + 1, tier)

filter_books_by_keywords(books, items, fields) ==
    [title_author_matches |-> sorted_desc(filter_loop(books, items, fields, 1, "title_author")),
     other_keyword_matches |-> sorted_desc(filter_loop(books, items, fields, 1, "other"))]

(***************************************************************************)
(* Taxonomies.  A taxonomy dict {main: {sub: tags}} is the set of its main *)
(* categories and the set of its <<main, sub, tag>> triples; a scalar tag  *)
(* is a list of one.  A classification is the name of a JSON text, parsed  *)
(* by json_loads; json.loads raises on a text that is not JSON.            *)
(***************************************************************************)
Taxonomy(mains, tags) == [mains |-> mains, tags |-> tags]

\* the empty dict {}
EmptyTaxonomy == Taxonomy({}, {})

\* the slots of the reference structure of merge_taxonomy_from_books
MergedSlots ==
    {<<"Genre Littéraire", "Fiction">>, <<"Genre Littéraire", "Non-fiction">>,
     <<"Thèmes - Concepts Clés", "Société">>, <<"Thèmes - Concepts Clés", "Technologie">>,
     <<"Thèmes - Concepts Clés", "Relations humaines">>, <<"Thèmes - Concepts Clés", "Épopées et quêtes">>,
     <<"Thèmes - Concepts Clés", "Philosophie / Métaphysique">>,
     <<"Type de Public", "Format">>,
     <<"Structure Narrative", "Point de vue">>, <<"Structure Narrative", "Temporalité">>,
     <<"Structure Narrative", "Style">>,
     <<"Personnages / Relations", "Type de protagoniste">>,
     <<"Personnages / Relations", "Relations dominantes">>}

MergedMains == {slot[1] : slot \in MergedSlots}

JsonTexts ==
    [sf_epic |-> Taxonomy({"Genre Littéraire"},
                          {<<"Genre Littéraire", "Fiction", "science-fiction">>,
                           <<"Genre Littéraire", "Fiction", "épopée">>}),
     sf_epic_adult |-> Taxonomy({"Genre Littéraire", "Type de Public"},
                          {<<"Genre Littéraire", "Fiction", "science-fiction">>,
                           <<"Genre Littéraire", "Fiction", "épopée">>,
                           <<"Type de Public", "Format", "adulte">>}),
     sf |-> Taxonomy({"Genre Littéraire"},
                          {<<"Genre Littéraire", "Fiction", "science-fiction">>}),
     tale |-> Taxonomy({"Genre Littéraire", "Lieu"},
                          {<<"Genre Littéraire", "Fiction", "conte">>,
                           <<"Lieu", "Pays", "France">>}),
     full |-> Taxonomy({"Genre Littéraire", "Type de Public", "Lieu"},
                          {<<"Genre Littéraire", "Fiction", "science-fiction">>,
                           <<"Genre Littéraire", "Fiction", "épopée">>,
                           <<"Genre Littéraire", "Fiction", "conte">>,
                           <<"Type de Public", "Format", "adulte">>,
                           <<"Lieu", "Pays", "France">>})]
    @@ (EmptyDict :> EmptyTaxonomy)

\* the JSON texts of the model that json.loads parses to a value that is not a dict: a
\* non-empty list
NotDictTexts == {"[1]"}

\* json.loads(text) succeeds and gives a dict
json_ok(text) == text \in DOMAIN JsonTexts

json_loads(text) == JsonTexts[text]

\* the classifications merge_taxonomy_from_books reads: present and parsed
parsed_classifications(matches) ==
    {json_loads(matches[i].book.classification) :
        i \in {j \in 1..Len(matches) :
                  /\ BookGet(matches[j].book, "classification") # ""
                  /\ json_ok(matches[j].book.classification)}}

merge_taxonomy_from_books(matches) ==
    Taxonomy(MergedMains,
             UNION {{t \in c.tags : <<t[1], t[2]>> \in MergedSlots} :
                       c \in parsed_classifications(matches)})

\* line 414: taxonomy.items() on a parsed classification that is not a dict raises
\* AttributeError, which the except clause of line 423 does not catch
merge_taxonomy_raises(matches) ==
    \E i \in 1..Len(matches) : BookGet(matches[i].book, "classification") \in NotDictTexts

\* line 462: book_taxonomy.get(main_category) on a parsed classification that is not a
\* dict raises AttributeError, outside the try of lines 454-457
calculate_taxonomy_score_raises(merged, book) ==
    BookGet(book, "classification") \in NotDictTexts /\ merged.mains # {}

\* the score as the number of the book's tags that the merged taxonomy lacks (mutant)
calculate_taxonomy_score_unmatched(merged, book) ==
    LET text == BookGet(book, "classification")
        book_taxonomy == IF text # "" /\ json_ok(text) THEN json_loads(text) ELSE EmptyTaxonomy
    IN  Cardinality({t \in book_taxonomy.tags : t \notin merged.tags})

calculate_taxonomy_score(merged, book) ==
    LET text == BookGet(book, "classification")
        book_taxonomy == IF text # "" /\ json_ok(text) THEN json_loads(text) ELSE EmptyTaxonomy
    IN  IF book_taxonomy.mains = {} \/ merged.mains = {} THEN 0
        ELSE Cardinality({t \in merged.tags :
                             t[1] \in book_taxonomy.mains /\ t \in book_taxonomy.tags})

\* the loop of find_taxonomy_matches from book i on: the scored books
RECURSIVE taxonomy_loop(_, _, _, _)
taxonomy_loop(books, merged, title_author_book_ids, i) ==
    IF i > Len(books) THEN <<>>
    ELSE LET book == books[i]
             taxonomy_score == calculate_taxonomy_score(merged, book)
             here == IF /\ BookGet(book, "classification") # ""
                        /\ book.id \notin title_author_book_ids
                        /\ taxonomy_score > 0
                     THEN <<Scored(book, Score(taxonomy_score, 1))>>
                     ELSE <<>>
         IN  here \o taxonomy_loop(books, merged, title_author_book_ids, i + 1)

\* the filter with one half of the maximum as its threshold (mutant)
RECURSIVE top_scoring_half(_, _)
top_scoring_half(ranked, max_possible_score) ==
    IF ranked = <<>> THEN <<>>
    ELSE LET score == ranked[1].score.num
         IN  (IF score >= 1 /\ 2 * score >= max_possible_score
              THEN <<ranked[1]>> ELSE <<>>)
             \o top_scoring_half(Tail(ranked), max_possible_score)

\* [book for book in ranked
\*  if book["score"] >= max(1, 2 * max_possible_score / 3)]
RECURSIVE top_scoring(_, _)
top_scoring(ranked, max_possible_score) ==
    IF ranked = <<>> THEN <<>>
    ELSE LET score == ranked[1].score.num
         IN  (IF score >= 1 /\ 3 * score >= 2 * max_possible_score
              THEN <<ranked[1]>> ELSE <<>>)
             \o top_scoring(Tail(ranked), max_possible_score)

\* max(max_possible_score, taxonomy_score) over the loop; a score of 0 adds no entry
RECURSIVE max_score(_)
max_score(entries) ==
    IF entries = <<>> THEN 0
    ELSE LET rest == max_score(Tail(entries))
         IN  IF entries[1].score.num > rest THEN entries[1].score.num ELSE rest

\* the loop of find_taxonomy_matches reaches a book on which calculate_taxonomy_score raises
find_taxonomy_matches_raises(books, merged, title_author_book_ids) ==
    \E i \in 1..Len(books) :
        /\ books[i].id \notin title_author_book_ids
        /\ calculate_taxonomy_score_raises(merged, books[i])

find_taxonomy_matches(books, merged, title_author_book_ids) ==
    LET scored == taxonomy_loop(books, merged, title_author_book_ids, 1)
        max_possible_score == max_score(scored)
        ranked == sorted_desc(scored)
    IN  IF max_possible_score > 0
        THEN top_scoring(ranked, max_possible_score)
        ELSE ranked

(***************************************************************************)
(* The keyword maps and Classifier answers of the model.                   *)
(***************************************************************************)
KeywordMaps ==
    [k_petit |-> <<[key |-> "titre", values |-> KwList(<<"Petit Prince">>)]>>,
     k_petit_en |-> <<[key |-> "title", values |-> KwList(<<"Petit Prince">>)]>>,
     k_dune |-> <<[key |-> "titre", values |-> KwList(<<"dune ">>)]>>,
     k_ubik |-> <<[key |-> "titre", values |-> KwStr("Ubik")]>>,
     k_ubik_fr |-> <<[key |-> "titre", values |-> KwList(<<"Ubik">>)],
                     [key |-> "langue", values |-> KwList(<<"fr">>)]>>,
     k_dune_fr |-> <<[key |-> "titre", values |-> KwList(<<"Arrakis", "Dune">>)],
                     [key |-> "langue", values |-> KwList(<<"fr">>)]>>,
     k_fr_dune |-> <<[key |-> "langue", values |-> KwList(<<"fr">>)],
                     [key |-> "titre", values |-> KwList(<<"Dune">>)]>>,
     k_fr |-> <<[key |-> "langue", values |-> KwList(<<"FR">>)]>>,
     k_zzz |-> <<[key |-> "titre", values |-> KwList(<<"Zzz">>)]>>,
     k_zzz_fr |-> <<[key |-> "titre", values |-> KwList(<<"Zzz">>)],
                    [key |-> "langue", values |-> KwList(<<"fr">>)]>>,
     k_herbert |-> <<[key |-> "auteur", values |-> KwList(<<"F. Herbert">>)]>>,
     k_pages |-> <<[key |-> "pages", values |-> KwList(<<"plus de 400">>)]>>,
     k_novariant |-> <<[key |-> "titre", values |-> KwList(<<>>)],
                       [key |-> "langue", values |-> KwList(<<"fr">>)]>>,
     k_partial |-> <<[key |-> "titre", values |-> KwList(<<"Dun">>)]>>,
     k_roman |-> <<[key |-> "categorie", values |-> KwList(<<"polar", "roman">>)]>>,
     k_empire |-> <<[key |-> "categorie", values |-> KwList(<<"empire">>)],
                    [key |-> "langue", values |-> KwStr("fr")]>>,
     k_empty |-> <<>>]

\* the taxonomies the Classifier answers with
ClassifierDocs == {"sf_epic", "tale", "full", EmptyDict}

(***************************************************************************)
(* filter_categories (app.py): keyword filtering, strategy selection and   *)
(* taxonomy expansion.                                                     *)
(***************************************************************************)
title_author_fields == {"titre", "auteur"}

\* any(kw_key in title_author_fields for kw_key, _ in keyword_items)
has_title_or_author(items) == \E k \in 1..Len(items) : items[k].key \in title_author_fields

\* the chain without its first branch: title/author matches are never trusted (mutant)
strategy_never_confident(ta_matches, other_matches, has_ta) ==
    IF Len(ta_matches) > 0 THEN 2
    ELSE IF has_ta = FALSE /\ Len(other_matches) > 0 THEN 3
    ELSE IF Len(other_matches) = 0 THEN 4
    ELSE 0

\* the chain without its third branch: the Classifier is asked whenever there is no
\* title/author match (mutant)
strategy_always_classifier(ta_matches, other_matches, has_ta) ==
    IF Len(ta_matches) > 0 /\ ScoreGeq(ta_matches[1].score, Score(1, 1)) THEN 1
    ELSE IF Len(ta_matches) > 0 THEN 2
    ELSE 4

\* the branch of the if/elif chain that runs: 0 when no condition holds
strategy(ta_matches, other_matches, has_ta) ==
    IF Len(ta_matches) > 0 /\ ScoreGeq(ta_matches[1].score, Score(1, 1)) THEN 1
    ELSE IF Len(ta_matches) > 0 THEN 2
    ELSE IF has_ta = FALSE /\ Len(other_matches) > 0 THEN 3
    ELSE IF Len(other_matches) = 0 THEN 4
    ELSE 0

\* the values of the local merged_taxonomy: unbound, the list [] or a dict
Unbound == [kind |-> "unbound", mains |-> {}, tags |-> {}]
EmptyList == [kind |-> "list", mains |-> {}, tags |-> {}]
Dict(t) == [kind |-> "dict", mains |-> t.mains, tags |-> t.tags]

\* app.taxonomy_data: the taxonomy loaded at start-up
taxonomy_data == Dict(JsonTexts.full)

\* json.dumps(taxonomy, sort_keys=True) of a merged_taxonomy value: the text lists the
\* main categories and the tags in one fixed order
RECURSIVE SetText(_)
SetText(S) ==
    IF S = {} THEN ""
    ELSE LET x == CHOOSE y \in S : TRUE IN x \o ";" \o SetText(S \ {x})

json_dumps(value) ==
    IF value.kind = "list" THEN "[]"
    ELSE "{" \o SetText(value.mains \cup {t[1] \o "/" \o t[2] \o "/" \o t[3] : t \in value.tags})
             \o "}"

\* what the Classifier service can answer, as the JSON text the service function
\* parses: a keyword map under "Mots-clés", or the fallback of get_keywords_with_gpt,
\* which has the key "keywords" of its prompt; a taxonomy; a description
KeywordsFallback == "kw_fallback"
KeywordAnswers == {"k_dune", "k_fr", "k_zzz", KeywordsFallback}
ClassifierAnswers == {"sf_epic", "full", EmptyDict}
DescriptionAnswers == {"desc"}
\* the service function raises RuntimeError
RaiseError == "raise"

\* cache_text = text + "_keywords"
keywords_cache_text(text) == text \o "_keywords"

\* some entry of c is no longer in c2, or has another value there
Changed(c, c2) ==
    \E i \in 1..Len(c) : ~\E j \in 1..Len(c2) : c2[j].key = c[i].key /\ c2[j].value = c[i].value

\* the miss branch of a cached wrapper that stores the failure of the service function
\* under the key (mutant)
cached_miss_store_failure(c, got, key, answer, t) ==
    [cache |-> set_locked(got.cache, key, IF answer = RaiseError THEN None ELSE answer, t).cache,
     ret |-> IF answer = RaiseError THEN None ELSE answer,
     got_hit |-> got.hit, raised |-> answer = RaiseError, called |-> TRUE,
     changed |-> \/ Changed(c, got.cache)
                 \/ Changed(got.cache, set_locked(got.cache, key, answer, t).cache)]

\* the miss branch of a cached wrapper: the service function answers, and the answer
\* is stored and returned unless it raises
cached_miss(c, got, key, answer, t) ==
    IF answer = RaiseError
    THEN [cache |-> got.cache, ret |-> None, got_hit |-> got.hit, raised |-> TRUE,
          called |-> TRUE, changed |-> Changed(c, got.cache)]
    ELSE [cache |-> set_locked(got.cache, key, answer, t).cache, ret |-> answer,
          got_hit |-> got.hit, raised |-> FALSE, called |-> TRUE,
          changed |-> \/ Changed(c, got.cache)
                      \/ Changed(got.cache, set_locked(got.cache, key, answer, t).cache)]

\* a cached wrapper of gpt_services on what gpt_cache.get returned (got); "changed"
\* tells whether an entry of c was removed or given another value
cached_result(c, got, key, answer, t) ==
    IF Truthy(got.ret)
    THEN [cache |-> got.cache, ret |-> got.ret, got_hit |-> got.hit, raised |-> FALSE,
          called |-> FALSE, changed |-> Changed(c, got.cache)]
    ELSE cached_miss(c, got, key, answer, t)

\* get_catagories_with_gpt_cached, get_keywords_with_gpt_cached and
\* get_description_with_gpt_cached: gpt_cache.get(text, taxonomy), "if value:", the
\* service function, gpt_cache.set(text, taxonomy, value); c is the cache, answer what
\* the service function does if it is called, t the time
cached_call(c, text, taxonomy_text, answer, t) ==
    cached_result(c, get_locked(c, generate_key(PyStr(text), taxonomy_text), t),
                  generate_key(PyStr(text), taxonomy_text), answer, t)

\* the counters after the gpt_cache.get of a wrapper
CountGet(r) ==
    /\ cache_hits' = IF r.got_hit THEN cache_hits + 1 ELSE cache_hits
    /\ cache_misses' = IF r.got_hit THEN cache_misses ELSE cache_misses + 1

\* the calls of a service function counted, after a cached wrapper
CountCall(r) == gpt_calls' = IF r.called THEN gpt_calls + 1 ELSE gpt_calls

\* the histories once a step has left the cache changed or not
Compare(changed) ==
    /\ run_clean' = (run_clean /\ ~changed)
    /\ stored_before' = IF changed THEN [q \in Queries |-> NoRun] ELSE stored_before

\* keywords_result["Mots-clés"] exists
has_mots_cles(value) == value \in DOMAIN KeywordMaps

\* user_filtered_books[user_id] = filtered_books that keeps the head of the list stored
\* before (mutant)
session_store_keep_head(store, user, list) ==
    [store EXCEPT ![user] = [has |-> TRUE,
                             list |-> IF @.list = <<>> THEN list ELSE <<@.list[1]>> \o list]]

\* user_filtered_books[user_id] = filtered_books that extends the stored list (mutant)
session_store_extend(store, user, list) ==
    [store EXCEPT ![user] = [has |-> TRUE, list |-> @.list \o list]]

\* user_filtered_books[user_id] = filtered_books
session_store(store, user, list) ==
    [store EXCEPT ![user] = [has |-> TRUE, list |-> list]]

Ids(list) == [i \in 1..Len(list) |-> list[i].book.id]

\* the score written into the dict of the catalog (mutant)
book_scored_in_place(book, score) ==
    [f \in DOMAIN book \cup {"score"} |-> IF f = "score" THEN "scored" ELSE book[f]]

\* lines 544, 547 and 503: the score is put in a new dict, {**book, "score": score};
\* the dict of the catalog is left as it was
book_after_scoring(book, score) == book

\* the catalog after a loop over it that scored the books of entries
books_after_scoring(books, entries) ==
    [i \in 1..Len(books) |->
        IF \E k \in 1..Len(entries) : entries[k].book.id = books[i].id
        THEN book_after_scoring(books[i],
                 entries[CHOOSE k \in 1..Len(entries) : entries[k].book.id = books[i].id].score)
        ELSE books[i]]

\* lines 309-332: the throttling check, the session and the activity timestamp
Request(user, text) ==
    /\ hphase = "idle"
    /\ requests < MaxRequests
    /\ requests' = requests + 1
    /\ LET stats == [debug_mode |-> TRUE, active_users |-> Cardinality(active_users),
                     memory |-> 0, cpu |-> 0, avg_high |-> avg_high(response_times)]
       IN  IF throttle_decision(stats).ret
           THEN /\ status' = 503
                /\ reply' = Overloaded
                /\ UNCHANGED <<hphase, query_text, user_id, start_time, session_timestamps,
                               run_clean, selVars, description_result, gpt_calls,
                               stored_at_start>>
           ELSE /\ status' = 0
                /\ reply' = NoError
                /\ hphase' = "keywords"
                /\ query_text' = text
                /\ user_id' = user
                /\ start_time' = now
                /\ session_timestamps' = [session_timestamps EXCEPT ![user] = now]
                /\ run_clean' = TRUE
                /\ gpt_calls' = 0
                /\ stored_at_start' = user_filtered_books
                /\ keyword_items' = "k_empty"
                /\ title_author_matches' = <<>>
                /\ other_keyword_matches' = <<>>
                /\ branch' = 0
                /\ merged_taxonomy' = Unbound
                /\ filtered_books' = <<>>
                /\ taxonomy_matches' = <<>>
                /\ description_result' = None
                /\ exc' = ""
                /\ UNCHANGED <<books_data, catalog>>
    /\ UNCHANGED <<cacheVars, memoVars, monVars, concVars, fnVars, user_filtered_books, query_log,
                   stored_before, compared>>

\* phase 1: cached_gpt_keywords(query_text) and keywords_result["Mots-clés"]
Keywords(answer) ==
    /\ hphase = "keywords"
    /\ \E r \in {cached_call(cache, keywords_cache_text(query_text), json_dumps(taxonomy_data),
                              answer, now)} :
           /\ cache' = r.cache
           /\ CountGet(r)
           /\ CountCall(r)
           /\ Compare(r.changed)
           /\ IF ~r.raised /\ has_mots_cles(r.ret)
              THEN keyword_items' = r.ret /\ hphase' = "filter" /\ exc' = exc
              ELSE /\ keyword_items' = keyword_items
                   /\ hphase' = "failed"
                   /\ exc' = IF r.raised THEN "RuntimeError" ELSE "KeyError"
    /\ UNCHANGED <<now, cacheHistory, monVars, books_data, title_author_matches,
                   other_keyword_matches, branch, merged_taxonomy, filtered_books,
                   taxonomy_matches, catalog, query_text, user_id, start_time,
                   description_result, user_filtered_books, session_timestamps, query_log,
                   status, requests, compared, reply, stored_at_start>>

\* phase 2: filter_books_by_keywords on the catalog and the keyword map
FilterBooks ==
    /\ UNCHANGED notSelect
    /\ hphase = "filter"
    /\ \E r \in {filter_books_by_keywords(catalog, KeywordMaps[keyword_items],
                                          title_author_fields)} :
           /\ title_author_matches' = r.title_author_matches
           /\ other_keyword_matches' = r.other_keyword_matches
           /\ catalog' = books_after_scoring(catalog, r.title_author_matches
                                                       \o r.other_keyword_matches)
    /\ hphase' = "select"
    /\ UNCHANGED <<books_data, keyword_items, branch, merged_taxonomy, filtered_books,
                   taxonomy_matches, exc>>

\* phase 3, when the Classifier is not asked (strategies 1 and 3) or no branch runs:
\* the normalisation loop then reads the unbound merged_taxonomy, which raises; in
\* strategy 1 merge_taxonomy_from_books raises on a classification that is not a dict
SelectLocal ==
    /\ UNCHANGED notSelect
    /\ hphase = "select"
    /\ LET s == strategy(title_author_matches, other_keyword_matches,
                         has_title_or_author(KeywordMaps[keyword_items]))
           raises == s = 1 /\ merge_taxonomy_raises(title_author_matches)
       IN  /\ s \in {0, 1, 3}
           /\ branch' = s
           /\ merged_taxonomy' = CASE s = 1 /\ raises -> Unbound
                                   [] s = 1 /\ ~raises ->
                                          Dict(merge_taxonomy_from_books(title_author_matches))
                                   [] s = 3 -> EmptyList
                                   [] s = 0 -> Unbound
           /\ filtered_books' = CASE s = 1 /\ raises -> <<>>
                                  [] s = 1 /\ ~raises -> title_author_matches
                                  [] s = 3 -> other_keyword_matches
                                  [] s = 0 -> <<>>
           /\ hphase' = IF s = 0 THEN "error" ELSE IF raises THEN "failed" ELSE "expand"
           /\ exc' = IF s = 0 THEN "UnboundLocalError"
                     ELSE IF raises THEN "AttributeError" ELSE exc
    /\ UNCHANGED <<books_data, keyword_items, title_author_matches, other_keyword_matches,
                   taxonomy_matches, catalog>>

\* phase 3, strategies 2 and 4: merged_taxonomy = cached_gpt_classifier(query_text); the
\* normalisation loop raises on a value that is not a taxonomy (a description)
SelectClassifier(answer) ==
    /\ hphase = "select"
    /\ LET s == strategy(title_author_matches, other_keyword_matches,
                         has_title_or_author(KeywordMaps[keyword_items]))
       IN  /\ s \in {2, 4}
           /\ branch' = s
    /\ \E r \in {cached_call(cache, query_text, json_dumps(taxonomy_data), answer, now)} :
           /\ cache' = r.cache
           /\ CountGet(r)
           /\ CountCall(r)
           /\ Compare(r.changed)
           /\ IF ~r.raised /\ json_ok(r.ret)
              THEN merged_taxonomy' = Dict(json_loads(r.ret)) /\ hphase' = "expand" /\ exc' = exc
              ELSE /\ merged_taxonomy' = Unbound
                   /\ hphase' = "failed"
                   /\ exc' = IF r.raised THEN "RuntimeError" ELSE "TypeError"
    /\ filtered_books' = <<>>
    /\ UNCHANGED <<now, cacheHistory, monVars, books_data, keyword_items, title_author_matches,
                   other_keyword_matches, taxonomy_matches, catalog, query_text, user_id,
                   start_time, description_result, user_filtered_books, session_timestamps,
                   query_log, status, requests, compared, reply, stored_at_start>>

\* phase 4: if len(merged_taxonomy) > 0, find_taxonomy_matches and extend;
\* calculate_taxonomy_score raises on a classification that is not a dict
Expand ==
    /\ UNCHANGED notSelect
    /\ hphase = "expand"
    /\ LET title_author_book_ids == {title_author_matches[i].book.id :
                                        i \in 1..Len(title_author_matches)}
           raises == /\ merged_taxonomy.mains # {}
                     /\ find_taxonomy_matches_raises(catalog, merged_taxonomy,
                                                     title_author_book_ids)
           found == IF merged_taxonomy.mains # {} /\ ~raises
                    THEN find_taxonomy_matches(catalog, merged_taxonomy,
                                               title_author_book_ids)
                    ELSE <<>>
       IN  /\ taxonomy_matches' = found
           /\ filtered_books' = filtered_books \o found
           /\ catalog' = IF merged_taxonomy.mains # {} /\ ~raises
                         THEN books_after_scoring(catalog,
                                  taxonomy_loop(catalog, merged_taxonomy,
                                                title_author_book_ids, 1))
                         ELSE catalog
           /\ hphase' = IF raises THEN "failed" ELSE "describe"
           /\ exc' = IF raises THEN "AttributeError" ELSE exc
    /\ UNCHANGED <<books_data, keyword_items, title_author_matches, other_keyword_matches,
                   branch, merged_taxonomy>>

\* phase 5: description_result = cached_gpt_description(query_text, merged_taxonomy)
Describe(answer) ==
    /\ hphase = "describe"
    /\ \E r \in {cached_call(cache, query_text, json_dumps(merged_taxonomy), answer, now)} :
           /\ cache' = r.cache
           /\ CountGet(r)
           /\ CountCall(r)
           /\ Compare(r.changed)
           /\ description_result' = r.ret
           /\ hphase' = IF r.raised THEN "failed" ELSE "store"
           /\ exc' = IF r.raised THEN "RuntimeError" ELSE exc
    /\ UNCHANGED <<now, cacheHistory, monVars, books_data, keyword_items, title_author_matches,
                   other_keyword_matches, branch, merged_taxonomy, filtered_books,
                   taxonomy_matches, catalog>>
    /\ UNCHANGED <<query_text, user_id, start_time, user_filtered_books, session_timestamps,
                   query_log, status, requests, compared, reply, stored_at_start>>

\* phases 6 to 9: the list is stored for the session, track_request, log_query with
\* the number of results, the response
Store ==
    /\ hphase = "store"
    /\ user_filtered_books' = session_store(user_filtered_books, user_id, filtered_books)
    /\ track_request(user_id, now - start_time)
    /\ query_log' = Append(query_log, [user_id |-> user_id, query |-> query_text,
                                       results_count |-> Len(filtered_books)])
    /\ status' = 200
    /\ reply' = NoError
    /\ hphase' = "idle"
    /\ compared' = stored_before[query_text]
    /\ stored_before' = [stored_before EXCEPT ![query_text] =
                            [valid |-> run_clean, ids |-> Ids(filtered_books)]]
    /\ UNCHANGED <<cacheVars, memoVars, concVars, fnVars, mlock, slast, books_data, keyword_items,
                   title_author_matches, other_keyword_matches, branch, merged_taxonomy,
                   filtered_books, taxonomy_matches, catalog, exc, query_text, user_id,
                   start_time, description_result, session_timestamps, requests, run_clean,
                   gpt_calls, stored_at_start>>

\* lines 551-575: the except blocks: log_query with -1, track_request, status 500.  No
\* json.JSONDecodeError reaches the handler (the service functions turn it into
\* RuntimeError or a fallback), so the block that runs is "except Exception"
HandleError ==
    /\ hphase \in {"failed", "error"}
    /\ track_request(user_id, now - start_time)
    /\ query_log' = Append(query_log, [user_id |-> user_id, query |-> query_text,
                                       results_count |-> -1])
    /\ status' = 500
    /\ reply' = Unavailable
    /\ hphase' = "idle"
    /\ UNCHANGED <<cacheVars, memoVars, concVars, fnVars, mlock, slast, books_data, keyword_items,
                   title_author_matches, other_keyword_matches, branch, merged_taxonomy,
                   filtered_books, taxonomy_matches, catalog, exc, query_text, user_id,
                   start_time, description_result, user_filtered_books, session_timestamps,
                   requests, run_clean, stored_before, compared, gpt_calls, stored_at_start>>

\* time passes during and between the requests
RequestTick ==
    /\ now < MaxRequestTime
    /\ now' = now + 1
    /\ UNCHANGED <<cache, cache_hits, cache_misses, cacheHistory, monVars, selVars, reqVars>>

\* /filter requests one after another on one catalog, by u1 and u2; the monitor is new
\* or has tracked one request of another user, u3, at time 0
MonitorTracked(earlier) ==
    /\ active_users = earlier
    /\ user_last_activity = IF "u3" \in earlier
                            THEN <<[user_id |-> "u3", last_activity |-> 0]>> ELSE <<>>
    /\ response_times = IF "u3" \in earlier THEN <<0>> ELSE <<>>
    /\ request_count = [u \in Users |-> IF u \in earlier THEN 1 ELSE 0]
    /\ mlock = None
    /\ slast = NoStats
    /\ dropped = FALSE

FilterInit ==
    /\ CacheInit
    /\ \E earlier \in {{}, {"u3"}} : MonitorTracked(earlier)
    /\ SelectIdle
    /\ RequestInit
    /\ FnIdle

FilterNext ==
    \/ \E user \in RequestUsers, text \in Queries : Request(user, text)
    \/ \E answer \in KeywordAnswers \cup {RaiseError} : Keywords(answer)
    \/ FilterBooks
    \/ SelectLocal
    \/ \E answer \in ClassifierAnswers \cup {RaiseError} : SelectClassifier(answer)
    \/ Expand
    \/ \E answer \in DescriptionAnswers \cup {RaiseError} : Describe(answer)
    \/ Store
    \/ HandleError
    \/ RequestTick

SpecFilter == FilterInit /\ [][FilterNext]_vars

\* the selector and the expansion on every catalog and keyword map of the model
SelectInit ==
    /\ CacheInit
    /\ MonitorInit
    /\ SessionInit
    /\ query_text = "Dune"
    /\ user_id = "u1"
    /\ start_time = 0
    /\ description_result = None
    /\ requests = 1
    /\ books_data \in DOMAIN Catalogs
    /\ keyword_items \in DOMAIN KeywordMaps
    /\ hphase = "filter"
    /\ title_author_matches = <<>>
    /\ other_keyword_matches = <<>>
    /\ branch = 0
    /\ merged_taxonomy = Unbound
    /\ filtered_books = <<>>
    /\ taxonomy_matches = <<>>
    /\ catalog = Catalogs[books_data]
    /\ exc = ""
    /\ FnIdle

SelectNext ==
    \/ FilterBooks
    \/ SelectLocal
    \/ \E answer \in ClassifierDocs \cup {RaiseError} : SelectClassifier(answer)
    \/ Expand

SpecSelect == SelectInit /\ [][SelectNext]_vars

(***************************************************************************)
(* Claims about the cache.                                               *)
(***************************************************************************)

\* C1: in every reachable state of any interleaving of set, get, clear_expired and
\* get_stats the cache holds at most max_size entries (and get_stats reports no more).
C1_SizeBounded == Len(cache) <= max_size /\ last.size <= max_size

\* C1 witness: more distinct keys than the capacity have been set, the last call was a
\* successful set, and the cache is full.
C1_Witness ==
    /\ last.op = "set" /\ last.ok
    /\ Cardinality({k \in AllKeys : set_at[k] >= 0}) > max_size
    /\ Len(cache) = max_size

\* C2: from an empty cache, after set was called for max_size+k distinct keys (k >= 1),
\* interleaved with get hits, the absent keys are exactly the k least recently used.
C2_LruEvicted ==
    Len(lru) > max_size =>
        LET k == Len(lru) - max_size
        IN  /\ \A i \in 1..k : lru[i] \notin Keys(cache)
            /\ \A i \in (k + 1)..Len(lru) : lru[i] \in Keys(cache)

\* C2 witness: the capacity was exceeded after a get hit changed the order of use.
C2_Witness ==
    /\ Len(lru) > max_size
    /\ cache_hits > 0
    /\ last.op = "set"
    /\ \E i \in 1..Len(lru) : lru[i] \in Keys(cache) /\ set_at[lru[i]] >= 0
                               /\ \E j \in 1..Len(lru) : lru[j] \notin Keys(cache)

\* C3: set with a derivable key succeeds, and a get of the same key that directly
\* follows it, less than ttl_seconds later, returns the value set and counts a hit.
C3_RoundTrip ==
    /\ (last.op = "set" /\ last.key # NoKey) => last.ok
    /\ (last.op = "get" /\ last.fresh) => (last.ret = last.value /\ last.hit /\ ~last.miss)

\* C3 witness: a get directly after the set of its key returned the response r1.
C3_Witness == last.op = "get" /\ last.fresh /\ last.ret = "r1"

\* C4: a get issued more than ttl_seconds after the last set of its key returns a miss,
\* increments the miss counter and leaves the cache without the entry.
C4_ExpiredMiss ==
    (last.op = "get" /\ last.age > ttl_seconds) =>
        (last.ret = None /\ last.miss /\ ~last.hit /\ ~last.present)

\* C4 witness: such a get found the expired entry still in the cache.
C4_Witness == last.op = "get" /\ last.age > ttl_seconds /\ last.had

\* C5: once a wrapper call for (q, taxonomy) has returned a result, a later call for the
\* same q and taxonomy that finds the entry present and unexpired returns that same
\* result and does not invoke the Classifier.
C5_Memoized ==
    wlast.expect # {} => (~wlast.called /\ \A x \in wlast.expect : wlast.ret = x)

(***************************************************************************)
(* Claims about the performance monitor.                                   *)
(***************************************************************************)

\* C10 as stated: whenever the active-user count exceeds max_users, should_throttle
\* returns (True, non-empty reason); after cleanup_inactive_users_safe has dropped the
\* count to max_users or less, should_throttle returns (False, "").
C10_Original ==
    slast.op = "should_throttle" =>
        /\ slast.active_users > max_users => (slast.ret /\ slast.reason # "")
        /\ (slast.dropped /\ slast.active_users <= max_users) =>
               (~slast.ret /\ slast.reason = "")

\* C10 amended: whenever the active-user count exceeds max_users, should_throttle
\* returns (True, non-empty reason); after cleanup_inactive_users_safe has dropped the
\* count to max_users or less, should_throttle returns (False, "") in safe mode, and in
\* full mode if memory, CPU and average response time are within their limits too.
C10_Throttle ==
    slast.op = "should_throttle" =>
        /\ slast.active_users > max_users => (slast.ret /\ slast.reason # "")
        /\ (/\ slast.dropped /\ slast.active_users <= max_users
            /\ \/ slast.debug_mode
               \/ /\ slast.memory <= memory_limit /\ slast.cpu <= cpu_limit
                  /\ ~slast.avg_high) =>
               (~slast.ret /\ slast.reason = "")

\* C10 witness: should_throttle returned (False, "") after a cleanup had taken the count
\* from above max_users down to it.
C10_Witness ==
    /\ slast.op = "should_throttle" /\ slast.dropped /\ ~slast.ret
    /\ slast.active_users = max_users

(***************************************************************************)
(* Claims about the strategy selector and the ranked list (SpecSelect).    *)
(***************************************************************************)
\* the four states of the selector, as conditions on what the keyword filter returned
StateCondition(n) ==
    CASE n = 1 -> /\ Len(title_author_matches) > 0
                  /\ ScoreGeq(title_author_matches[1].score, Score(1, 1))
      [] n = 2 -> /\ Len(title_author_matches) > 0
                  /\ ~ScoreGeq(title_author_matches[1].score, Score(1, 1))
      [] n = 3 -> /\ Len(title_author_matches) = 0
                  /\ ~has_title_or_author(KeywordMaps[keyword_items])
                  /\ Len(other_keyword_matches) > 0
      [] n = 4 -> /\ Len(title_author_matches) = 0
                  /\ Len(other_keyword_matches) = 0

\* C6: whatever the keyword filter returned, exactly one of the four states of the
\* selector holds; the selector takes that branch and no other, its if/elif chain
\* never falls through, and merged_taxonomy is bound when it finishes (it does not
\* finish when the Classifier call of the branch raises)
C6_OneBranch ==
    /\ hphase = "select" => Cardinality({n \in 1..4 : StateCondition(n)}) = 1
    /\ (hphase \in {"expand", "describe", "store", "error"} \/ (hphase = "failed" /\ branch # 0)) =>
           /\ hphase # "error"
           /\ branch \in 1..4
           /\ \A n \in 1..4 : StateCondition(n) <=> n = branch
           /\ hphase \in {"expand", "describe", "store"} => merged_taxonomy.kind # "unbound"

\* a keyword map with a title key that matches nothing and a language key that some
\* books match, one of them without a title: the selector ran state 4
C6_Witness ==
    /\ hphase = "expand"
    /\ branch = 4
    /\ books_data = "library"
    /\ keyword_items = "k_zzz_fr"

\* the position of a ranked entry's book in the catalog
CatalogIndex(e) ==
    CHOOSE i \in 1..Len(Catalogs[books_data]) : Catalogs[books_data][i].id = e.book.id

\* descending by score, entries of equal score in catalog order
SortedStable(l) ==
    \A i \in 1..(Len(l) - 1) :
        /\ ScoreGeq(l[i].score, l[i + 1].score)
        /\ ScoreGeq(l[i + 1].score, l[i].score) => CatalogIndex(l[i]) < CatalogIndex(l[i + 1])

\* the seed list of the branch taken
Seed == IF branch = 1 THEN title_author_matches ELSE <<>>

\* C7 as stated: in every branch except state 3 the final list is sorted as a whole,
\* descending by score with equal scores in catalog order
C7_Original ==
    (hphase = "describe" /\ branch \in {1, 2, 4}) => SortedStable(filtered_books)

\* C7 amended: in every branch except state 3 the final list is the seed list followed
\* by the expansion results, not sorted again: each of the two parts is descending
\* by score with equal scores in catalog order, and no expansion result is a
\* title/author match
C7_SeedThenExpansion ==
    (hphase = "describe" /\ branch \in {1, 2, 4}) =>
        /\ filtered_books = Seed \o taxonomy_matches
        /\ SortedStable(Seed)
        /\ SortedStable(taxonomy_matches)
        /\ \A i \in 1..Len(taxonomy_matches), j \in 1..Len(title_author_matches) :
               taxonomy_matches[i].book.id # title_author_matches[j].book.id

\* state 1 with an expansion result that scores higher than the seed entry before
\* it, and expansion results of different scores
C7_Witness ==
    /\ hphase = "describe"
    /\ branch = 1
    /\ Len(taxonomy_matches) >= 2
    /\ ~ScoreGeq(Seed[Len(Seed)].score, taxonomy_matches[1].score)
    /\ ~ScoreGeq(taxonomy_matches[Len(taxonomy_matches)].score, taxonomy_matches[1].score)

\* the catalog and the keyword map of the example, with the field names of the
\* code ("titre") and with those of the example ("title")
PetitPrince ==
    \/ books_data = "petit" /\ keyword_items = "k_petit"
    \/ books_data = "petit_en" /\ keyword_items = "k_petit_en"

C9_SameRankedList ==
    (hphase = "idle" /\ status = 200 /\ compared.valid) =>
        Ids(user_filtered_books[user_id].list) = compared.ids

\* a request that asked the cached Classifier wrapper and stored a list of several
\* records, the same query having been run before with the cache unchanged since
C9_Witness ==
    /\ hphase = "idle"
    /\ status = 200
    /\ compared.valid
    /\ branch \in {2, 4}
    /\ cache_hits > 0
    /\ Len(compared.ids) > 1
    /\ user_filtered_books[user_id].has

(***************************************************************************)
(* Sessions under concurrency (utils/session_cleanup.py, app.py).  The     *)
(* request threads and the cleanup thread share the dict                   *)
(* user_filtered_books and the timestamps file; SessionCleanup has no      *)
(* lock.  update_session_activity is load, set the entry, save;            *)
(* cleanup_expired_sessions is load, find the expired sessions, pop them   *)
(* from the dict and from the loaded timestamps, save if any expired.  A   *)
(* load or a save of the file, a dict assignment and a dict pop are one    *)
(* step each.                                                              *)
(***************************************************************************)
\* SessionCleanup.session_timeout, in clock ticks
session_timeout == 1

\* the lists two requests may compute, by the ids of their records
SessionLists == {<<"b1", "b2">>, <<"b3">>}

\* session_timestamps.get(user_id, current_time) of line 66
timestamp_get(timestamps, user, current_time) ==
    IF timestamps[user] = -1 THEN current_time ELSE timestamps[user]

\* the loop of lines 65-69: the sessions of the dict found expired
expired_sessions(store, timestamps, current_time) ==
    {u \in RequestUsers :
        /\ store[u].has
        /\ current_time - timestamp_get(timestamps, u, current_time) > session_timeout}

\* the sessions of the dict whose last activity is older than session_timeout at time t
due_sessions(store, t) ==
    {u \in RequestUsers : store[u].has /\ t - activity[u] > session_timeout}

sessionFrame == <<cache, cache_hits, cache_misses, tmp, ops, last, set_at, lru, memoVars,
                  monVars, selVars, glock, query_text, user_id, start_time,
                  description_result, query_log, status, run_clean, stored_before, compared,
                  reply, gpt_calls, stored_at_start, fnVars>>

\* a /filter request of session user arrives at thread th; update_session_activity
\* (app.py line 332) loads the file and sets the entry of the session in what it loaded ...
UpdateLoad(th, user) ==
    /\ UNCHANGED sessionFrame
    /\ pc[th] = "idle"
    /\ requests < MaxRequests
    /\ requests' = requests + 1
    /\ sloc' = [sloc EXCEPT ![th] =
                   [user_id |-> user,
                    session_timestamps |-> [session_timestamps EXCEPT ![user] = now],
                    filtered_books |-> <<>>]]
    /\ pc' = [pc EXCEPT ![th] = "s_loaded"]
    /\ UNCHANGED <<now, user_filtered_books, session_timestamps, sweep, activity>>

\* ... and saves it: the file is now what this thread loaded, with its entry
UpdateSave(th) ==
    /\ UNCHANGED sessionFrame
    /\ pc[th] = "s_loaded"
    /\ session_timestamps' = sloc[th].session_timestamps
    /\ activity' = [activity EXCEPT ![sloc[th].user_id] =
                       IF sloc[th].session_timestamps[sloc[th].user_id] > @
                       THEN sloc[th].session_timestamps[sloc[th].user_id] ELSE @]
    /\ pc' = [pc EXCEPT ![th] = "s_request"]
    /\ UNCHANGED <<now, user_filtered_books, sloc, sweep, requests>>

\* phases 1 to 5 of the request give its filtered_books
Work(th, list) ==
    /\ UNCHANGED sessionFrame
    /\ pc[th] = "s_request"
    /\ sloc' = [sloc EXCEPT ![th].filtered_books = list]
    /\ pc' = [pc EXCEPT ![th] = "s_store"]
    /\ UNCHANGED <<now, user_filtered_books, session_timestamps, sweep, activity, requests>>

\* line 443: user_filtered_books[user_id] = filtered_books
StoreList(th) ==
    /\ UNCHANGED sessionFrame
    /\ pc[th] = "s_store"
    /\ user_filtered_books' = session_store(user_filtered_books, sloc[th].user_id,
                                            sloc[th].filtered_books)
    /\ sloc' = [sloc EXCEPT ![th] = NoSession]
    /\ pc' = [pc EXCEPT ![th] = "idle"]
    /\ UNCHANGED <<now, session_timestamps, sweep, activity, requests>>

\* cleanup_expired_sessions, lines 59-63: current_time and the load of the file
SweepLoad ==
    /\ UNCHANGED sessionFrame
    /\ sweep.pc = "idle"
    /\ sweep' = [pc |-> "loaded", current_time |-> now,
                 session_timestamps |-> session_timestamps, expired_sessions |-> {},
                 due |-> due_sessions(user_filtered_books, now)]
    /\ UNCHANGED <<now, pc, user_filtered_books, session_timestamps, sloc, activity, requests>>

\* lines 65-69: the loop over the keys of the dict
SweepScan ==
    /\ UNCHANGED sessionFrame
    /\ sweep.pc = "loaded"
    /\ sweep' = [sweep EXCEPT !.pc = "scanned",
                              !.expired_sessions =
                                  expired_sessions(user_filtered_books,
                                                   sweep.session_timestamps,
                                                   sweep.current_time)]
    /\ UNCHANGED <<now, pc, user_filtered_books, session_timestamps, sloc, activity, requests>>

\* lines 72-74: the expired sessions are popped from the dict and from the loaded
\* timestamps; with none expired the run ends here (line 77)
SweepPop ==
    /\ UNCHANGED sessionFrame
    /\ sweep.pc = "scanned"
    /\ user_filtered_books' = [u \in RequestUsers |->
                                  IF u \in sweep.expired_sessions THEN NoList
                                  ELSE user_filtered_books[u]]
    /\ sweep' = IF sweep.expired_sessions = {} THEN SweepIdle
                ELSE [sweep EXCEPT !.pc = "popped",
                                   !.session_timestamps =
                                       [u \in RequestUsers |->
                                           IF u \in sweep.expired_sessions THEN -1
                                           ELSE sweep.session_timestamps[u]]]
    /\ UNCHANGED <<now, pc, session_timestamps, sloc, activity, requests>>

\* lines 77-78: the save of the timestamps left
SweepSave ==
    /\ UNCHANGED sessionFrame
    /\ sweep.pc = "popped"
    /\ session_timestamps' = sweep.session_timestamps
    /\ sweep' = SweepIdle
    /\ UNCHANGED <<now, pc, user_filtered_books, sloc, activity, requests>>

\* two request threads and the cleanup thread
SessionsNext ==
    \/ \E th \in Threads, u \in RequestUsers : UpdateLoad(th, u)
    \/ \E th \in Threads : UpdateSave(th)
    \/ \E th \in Threads, list \in SessionLists : Work(th, list)
    \/ \E th \in Threads : StoreList(th)
    \/ SweepLoad
    \/ SweepScan
    \/ SweepPop
    \/ SweepSave
    \/ Tick

SpecSessions == Init /\ [][SessionsNext]_vars

(***************************************************************************)
(* The timestamps file when reading or writing it fails, one call at a     *)
(* time.  load_session_timestamps returns {} when open or json.load        *)
(* raises (lines 95-98); save_session_timestamps prints and returns when   *)
(* open or json.dump raises (lines 109-110), the file being as it was.     *)
(***************************************************************************)
\* no timestamp at all: the {} of line 98
NoTimestamps == [u \in RequestUsers |-> -1]

\* load_session_timestamps() on the file
load_session_timestamps(file, load_raises) == IF load_raises THEN NoTimestamps ELSE file

\* the file after save_session_timestamps(timestamps)
save_session_timestamps(file, timestamps, save_raises) ==
    IF save_raises THEN file ELSE timestamps

\* a whole /filter request of session user that stores list: update_session_activity
\* (load, set, save), then line 443
RequestWithFile(user, list, load_raises, save_raises) ==
    /\ UNCHANGED sessionFrame
    /\ requests < MaxRequests
    /\ requests' = requests + 1
    /\ session_timestamps' =
           save_session_timestamps(
               session_timestamps,
               [load_session_timestamps(session_timestamps, load_raises) EXCEPT ![user] = now],
               save_raises)
    /\ activity' = [activity EXCEPT ![user] = now]
    /\ user_filtered_books' = session_store(user_filtered_books, user, list)
    /\ UNCHANGED <<now, pc, sloc, sweep>>

\* update_session_activity called on its own (the routes of app.py lines 199 and 243)
ActivityWithFile(user, load_raises, save_raises) ==
    /\ UNCHANGED sessionFrame
    /\ user_filtered_books[user].has
    /\ activity[user] < now
    /\ session_timestamps' =
           save_session_timestamps(
               session_timestamps,
               [load_session_timestamps(session_timestamps, load_raises) EXCEPT ![user] = now],
               save_raises)
    /\ activity' = [activity EXCEPT ![user] = now]
    /\ UNCHANGED <<now, pc, sloc, sweep, user_filtered_books, requests>>

\* a whole run of cleanup_expired_sessions; sweep keeps what the run found
CleanupWithFile(load_raises, save_raises) ==
    /\ UNCHANGED sessionFrame
    /\ \E loaded \in {load_session_timestamps(session_timestamps, load_raises)} :
       \E expired \in {expired_sessions(user_filtered_books, loaded, now)} :
           /\ user_filtered_books' = [u \in RequestUsers |->
                                         IF u \in expired THEN NoList
                                         ELSE user_filtered_books[u]]
           /\ session_timestamps' =
                  IF expired = {} THEN session_timestamps
                  ELSE save_session_timestamps(
                           session_timestamps,
                           [u \in RequestUsers |-> IF u \in expired THEN -1 ELSE loaded[u]],
                           save_raises)
           /\ sweep' = [pc |-> "idle", current_time |-> now, session_timestamps |-> loaded,
                        expired_sessions |-> expired,
                        due |-> due_sessions(user_filtered_books, now)]
    /\ UNCHANGED <<now, pc, sloc, activity, requests>>

\* requests, activity refreshes and cleanup runs one after another, each read and each
\* write of the file failing or not
SessionFileNext ==
    \/ \E u \in RequestUsers, list \in SessionLists, lr \in BOOLEAN, sr \in BOOLEAN :
           RequestWithFile(u, list, lr, sr)
    \/ \E u \in RequestUsers, lr \in BOOLEAN, sr \in BOOLEAN : ActivityWithFile(u, lr, sr)
    \/ \E lr \in BOOLEAN, sr \in BOOLEAN : CleanupWithFile(lr, sr)
    \/ Tick

SpecSessionFile == Init /\ [][SessionFileNext]_vars

(***************************************************************************)
(* Claims about throttling and failures of the /filter handler.            *)
(***************************************************************************)

\* should_throttle() as the handler calls it (safe mode) reports a violation
ThrottleViolation == Cardinality(active_users) > max_users

\* C11: a request that arrives while should_throttle reports a violation is answered in
\* the same step with status 503 and a retry hint: no phase of the request is entered
\* (nothing waits or is queued), no service function is called, and the cache with its
\* counters, the session map, the session activity timestamps and the monitor's
\* counters are as before
C11_ThrottledUnchanged ==
    [][(requests' = requests + 1 /\ ThrottleViolation) =>
          /\ status' = 503
          /\ reply'.retry_after > 0
          /\ hphase' = "idle"
          /\ gpt_calls' = gpt_calls
          /\ UNCHANGED <<cache, cache_hits, cache_misses>>
          /\ UNCHANGED <<user_filtered_books, session_timestamps>>
          /\ UNCHANGED <<active_users, user_last_activity, response_times, request_count>>]_vars

\* a request was rejected while the cache, the session map and the monitor held the
\* traces of an earlier request
C11_Witness ==
    /\ status = 503
    /\ reply = Overloaded
    /\ hphase = "idle"
    /\ cache # <<>>
    /\ \E u \in RequestUsers : user_filtered_books[u].has
    /\ Cardinality(active_users) > max_users

\* every entry of c2 is an entry of c: same key, same value, same timestamp
NothingStored(c, c2) == \A j \in 1..Len(c2) : \E i \in 1..Len(c) : c[i] = c2[j]

C18_CatalogUnchanged == catalog = Catalogs[books_data]

\* both loops over the catalog have attached scores: title/author matches and
\* expansion results
C18_Witness ==
    /\ hphase = "describe"
    /\ branch = 1
    /\ title_author_matches # <<>>
    /\ taxonomy_matches # <<>>

\* a classification that is set and is not a JSON text for a dict
Malformed(book) ==
    BookGet(book, "classification") # "" /\ ~json_ok(book.classification)

\* C20: a request on a catalog with a record whose classification is malformed raises no
\* error in the taxonomy merge or the taxonomy scoring, and the record is in no
\* expansion result
C20_MalformedAsEmpty ==
    (\E i \in 1..Len(catalog) : Malformed(catalog[i])) =>
        /\ exc # "AttributeError"
        /\ \A k \in 1..Len(taxonomy_matches) : ~Malformed(taxonomy_matches[k].book)

(***************************************************************************)
(* Claims about the locks.                                                 *)
(***************************************************************************)

\* C13: a thread that is in the call of the service function holds neither
\* GPTCache.lock nor PerformanceMonitor.lock
C13_NoLockInClassifier ==
    \A th \in Threads : pc[th] = "w_classify" => glock # th /\ mlock # th

\* one thread is in the call of the service function while the other one is inside a
\* lock section of the cache
C13_Witness ==
    \E th \in Threads, other \in Threads :
        /\ th # other
        /\ pc[th] = "w_classify"
        /\ glock = other

\* C14: every step that changes the entries of the cache, the hit counter or the miss
\* counter is a step of a thread that holds GPTCache.lock
C14_ChangesUnderLock ==
    [][(cache' # cache \/ cache_hits' # cache_hits \/ cache_misses' # cache_misses) =>
          \E th \in Threads : glock = th /\ pc'[th] # pc[th]]_vars

\* C19: a get whose key cannot be derived ends by counting one miss: the step that
\* completes it takes cache_misses up by exactly one and leaves the entries and the hit
\* counter as they are; a set whose key cannot be derived reports failure and leaves
\* entries and counters as they are
C19_KeyErrorCounted ==
    [][/\ \A th \in Threads :
              (pc[th] = "miss_write" /\ pc'[th] = "idle") =>
                  /\ cache_misses' = cache_misses + 1
                  /\ UNCHANGED <<cache, cache_hits>>
       /\ (ops' = ops + 1 /\ last'.op = "set" /\ last'.key = NoKey) =>
              /\ ~last'.ok
              /\ UNCHANGED <<cache, cache_hits, cache_misses>>]_vars

(***************************************************************************)
(* Claims about the sessions under concurrency.                            *)
(***************************************************************************)

\* C15: no update of the session timestamps is lost: the save of an
\* update_session_activity call changes no entry but that of its own session, and the
\* save of a cleanup run changes no entry but those of the sessions it expired
C15_NoLostUpdate ==
    [][/\ \A th \in Threads :
              (pc[th] = "s_loaded" /\ pc'[th] = "s_request") =>
                  \A v \in RequestUsers \ {sloc[th].user_id} :
                      session_timestamps'[v] = session_timestamps[v]
       /\ (sweep.pc = "popped" /\ sweep'.pc = "idle") =>
              \A v \in RequestUsers \ sweep.expired_sessions :
                  session_timestamps'[v] = session_timestamps[v]]_vars

\* C16: the step by which a request stores its list leaves the session with exactly
\* that list, whatever was stored for it before and whatever other requests of the
\* session are under way, and leaves every other session as it was
C16_LastWriterWhole ==
    [][\A th \in Threads :
          (pc[th] = "s_store" /\ pc'[th] = "idle") =>
              /\ user_filtered_books'[sloc[th].user_id] =
                     [has |-> TRUE, list |-> sloc[th].filtered_books]
              /\ \A v \in RequestUsers \ {sloc[th].user_id} :
                     user_filtered_books'[v] = user_filtered_books[v]]_vars

\* two requests of one session are under way with different lists: one has stored its
\* list, the other is about to store
C16_Witness ==
    \E th \in Threads :
        /\ pc[th] = "s_store"
        /\ requests = MaxRequests
        /\ user_filtered_books[sloc[th].user_id].has
        /\ user_filtered_books[sloc[th].user_id].list # sloc[th].filtered_books

\* C17: a cleanup run finds expired, and so removes, every session that was in the
\* dict with a last activity older than session_timeout when the run began and that is
\* still so when the run goes through the dict
C17_IdleFoundExpired ==
    [][(sweep.pc = "loaded" /\ sweep'.pc = "scanned") =>
          sweep.due \cap due_sessions(user_filtered_books, sweep.current_time)
              \subseteq sweep'.expired_sessions]_vars

\* C21: with reads and writes of the timestamps file failing or not, a cleanup run
\* evicts exactly the sessions of the dict whose last activity is older than
\* session_timeout: a refreshed session is kept, an idle one is removed
C21_FileFailuresHarmless ==
    [][(sweep'.current_time = now /\ sweep' # sweep) =>
          /\ sweep'.expired_sessions = sweep'.due
          /\ \A u \in sweep'.due : ~user_filtered_books'[u].has]_vars

(***************************************************************************)
(* The taxonomy functions called on their own: merge_taxonomy_from_books   *)
(* on a selection of records of a catalog, then calculate_taxonomy_score   *)
(* on every record of the model and find_taxonomy_matches on the catalog.  *)
(***************************************************************************)
\* the catalogs the functions are called on
TaxonomyCatalogs == {"library", "shelf", "broken"}
\* the ids find_taxonomy_matches is asked to exclude
ExcludedIds == SUBSET {"b3", "b6"}
\* every record of every catalog of the model
AllBooks == UNION {{Catalogs[c][i] : i \in 1..Len(Catalogs[c])} : c \in DOMAIN Catalogs}

\* the calls: the catalog, the positions in it of the records that are merged, the excluded ids
TaxonomyArgs ==
    UNION {[fn : {"taxonomy"}, books : {c}, seeds : SUBSET (1..Len(Catalogs[c])),
            title_author_book_ids : ExcludedIds] : c \in TaxonomyCatalogs}

\* the records of a catalog at the positions of a set, in catalog order, as matches
RECURSIVE seed_matches(_, _, _)
seed_matches(books, seeds, i) ==
    IF i > Len(books) THEN <<>>
    ELSE (IF i \in seeds THEN <<Scored(books[i], Score(1, 1))>> ELSE <<>>)
         \o seed_matches(books, seeds, i + 1)

\* the tags of the classification of a record, whatever their place in it
book_tags(book) ==
    LET text == BookGet(book, "classification")
    IN  IF text # "" /\ json_ok(text) THEN {t[3] : t \in json_loads(text).tags} ELSE {}

TaxonomyInit ==
    /\ CacheInit
    /\ MonitorInit
    /\ SelectIdle
    /\ RequestInit
    /\ fn_args \in TaxonomyArgs
    /\ fn_result = NotCalled

\* merged = merge_taxonomy_from_books(S); an exception ends the call
MergeSeeds ==
    /\ fn_result.pc = "idle"
    /\ \E S \in {seed_matches(Catalogs[fn_args.books], fn_args.seeds, 1)} :
          fn_result' = IF merge_taxonomy_raises(S)
                       THEN [pc |-> "raised", exc |-> "AttributeError"]
                       ELSE [pc |-> "merged", merged |-> merge_taxonomy_from_books(S)]
    /\ UNCHANGED <<cacheVars, memoVars, monVars, selVars, reqVars, concVars, fn_args>>

\* calculate_taxonomy_score(merged, book) for every record on which it returns, and
\* find_taxonomy_matches(books, merged, ids), which raises where a score in its loop does
ScoreBooks ==
    /\ fn_result.pc = "merged"
    /\ \E books \in {Catalogs[fn_args.books]} :
          fn_result' =
            [pc |-> "scored",
             merged |-> fn_result.merged,
             scores |-> [b \in {x \in AllBooks :
                                  ~calculate_taxonomy_score_raises(fn_result.merged, x)}
                          |-> calculate_taxonomy_score(fn_result.merged, b)],
             raised |-> find_taxonomy_matches_raises(books, fn_result.merged,
                                                    fn_args.title_author_book_ids),
             matches |-> IF find_taxonomy_matches_raises(books, fn_result.merged,
                                                        fn_args.title_author_book_ids)
                         THEN <<>>
                         ELSE find_taxonomy_matches(books, fn_result.merged,
                                                    fn_args.title_author_book_ids)]
    /\ UNCHANGED <<cacheVars, memoVars, monVars, selVars, reqVars, concVars, fn_args>>

TaxonomyNext ==
    \/ MergeSeeds
    \/ ScoreBooks

SpecTaxonomy == TaxonomyInit /\ [][TaxonomyNext]_vars

\* the records merged by the call
SeedBooks == {Catalogs[fn_args.books][i] : i \in fn_args.seeds}

\* C22: against the taxonomy merged from a set S of records, a record of S scores at least
\* as much as any record that shares no tag with the records of S, wherever both scores
\* are returned
C22_SeedOutscoresStranger ==
    fn_result.pc = "scored" =>
        \A s \in SeedBooks \cap DOMAIN fn_result.scores, r \in DOMAIN fn_result.scores :
            book_tags(r) \cap UNION {book_tags(x) : x \in SeedBooks} = {}
                => fn_result.scores[s] >= fn_result.scores[r]

\* a record of S scores more than a classified record that shares no tag with S
C22_Witness ==
    /\ fn_result.pc = "scored"
    /\ \E s \in SeedBooks \cap DOMAIN fn_result.scores, r \in DOMAIN fn_result.scores :
          /\ book_tags(r) # {}
          /\ book_tags(r) \cap UNION {book_tags(x) : x \in SeedBooks} = {}
          /\ fn_result.scores[s] > fn_result.scores[r]

\* the positions in the catalog of the call of the records that are not excluded
OpenPositions ==
    {i \in 1..Len(Catalogs[fn_args.books]) :
        Catalogs[fn_args.books][i].id \notin fn_args.title_author_book_ids}

\* the score of the record at a position of the catalog of the call
ScoreAt(i) == fn_result.scores[Catalogs[fn_args.books][i]]

\* the positions of the records that are not excluded, score at least 1 and at least
\* two thirds of every score of a record that is not excluded
KeptPositions ==
    {i \in OpenPositions :
        ScoreAt(i) >= 1 /\ \A j \in OpenPositions : 3 * ScoreAt(i) >= 2 * ScoreAt(j)}

\* the position in the catalog of the call of entry k of the result
MatchPosition(k) ==
    CHOOSE i \in 1..Len(Catalogs[fn_args.books]) :
        Catalogs[fn_args.books][i] = fn_result.matches[k].book

\* C29: find_taxonomy_matches returns the records that are not excluded and whose score is
\* at least 1 and at least two thirds of the highest score of a record that is not
\* excluded, each once with its score, by descending score and, for equal scores, in
\* catalog order; no record with an excluded id is returned
C29_TopTwoThirds ==
    (fn_result.pc = "scored" /\ ~fn_result.raised) =>
        /\ Len(fn_result.matches) = Cardinality(KeptPositions)
        /\ \A i \in KeptPositions :
               \E k \in 1..Len(fn_result.matches) :
                   /\ fn_result.matches[k].book = Catalogs[fn_args.books][i]
                   /\ fn_result.matches[k].score = Score(ScoreAt(i), 1)
        /\ \A k \in 1..Len(fn_result.matches) :
               fn_result.matches[k].book.id \notin fn_args.title_author_book_ids
        /\ \A k, l \in 1..Len(fn_result.matches) :
               k < l =>
                   \/ ScoreAt(MatchPosition(k)) > ScoreAt(MatchPosition(l))
                   \/ /\ ScoreAt(MatchPosition(k)) = ScoreAt(MatchPosition(l))
                      /\ MatchPosition(k) < MatchPosition(l)

\* a call that returns several records, drops a record with a positive score below the
\* threshold and leaves out an excluded record with a positive score
C29_Witness ==
    /\ fn_result.pc = "scored"
    /\ ~fn_result.raised
    /\ Len(fn_result.matches) >= 2
    /\ \E i \in OpenPositions \ KeptPositions : ScoreAt(i) >= 1
    /\ \E i \in (1..Len(Catalogs[fn_args.books])) \ OpenPositions : ScoreAt(i) >= 1

(***************************************************************************)
(* smart_keyword_match called on its own.  Its arguments are Python        *)
(* values: a query value comes from the JSON of the keyword extraction and *)
(* is a string or a number, a field value comes from book.get and is a     *)
(* string or None.                                                         *)
(***************************************************************************)
\* bool(value)
py_truthy(value) ==
    IF value.type = "str" THEN value.v # ""
    ELSE IF value.type = "int" THEN ParseInt(value.v) # 0
    ELSE FALSE

\* the number of pages the queries ask for
QueryPages == 300

\* a pages query: a comparison word and the number
pages_query(pattern, n) == pattern \o " " \o ToString(n) \o " pages"

ComparatorQueries == {pages_query(p, QueryPages) : p \in more_than_patterns \cup less_than_patterns}

\* an initials-plus-surname query and the full name it abbreviates
InitialsPairs == {<<"L.M. Montgomery", "Lucy Maud Montgomery">>, <<"X. Wu", "Xiaoming Wu">>}
\* a bare surname and a name that contains it
SurnamePairs == {<<"Tolkien", "J.R.R. Tolkien">>}

MatchQueries ==
    {PyStr(q) : q \in ComparatorQueries \cup {pair[1] : pair \in InitialsPairs \cup SurnamePairs}
                        \cup {"", "Dune", ToString(QueryPages)}}
    \cup {PyInt(ToString(QueryPages)), PyInt("0"), PyNone}
MatchFields ==
    {PyStr(b) : b \in {pair[2] : pair \in InitialsPairs \cup SurnamePairs}
                        \cup {"", "anything", "Dune II", ToString(QueryPages - 1),
                              ToString(QueryPages + 1)}}
    \cup {PyNone}
MatchFieldNames == {"auteur", "author", "titre", "pages", "nombre de pages", "parution", "langue", ""}

MatchArgs == [fn : {"match"}, query_value : MatchQueries, book_field : MatchFields,
              field_name : MatchFieldNames]

MatchInit ==
    /\ CacheInit
    /\ MonitorInit
    /\ SelectIdle
    /\ RequestInit
    /\ fn_args \in MatchArgs
    /\ fn_result = NotCalled

\* lines 189-190: .lower() on a value that is not a string raises AttributeError
smart_keyword_match_raises(query_value, book_field) ==
    /\ py_truthy(query_value)
    /\ py_truthy(book_field)
    /\ (query_value.type # "str" \/ book_field.type # "str")

\* smart_keyword_match(query_value, book_field, field_name)
Match ==
    /\ fn_result.pc = "idle"
    /\ fn_result' =
         IF ~py_truthy(fn_args.query_value) \/ ~py_truthy(fn_args.book_field)
         THEN [pc |-> "returned", score |-> 0]
         ELSE IF smart_keyword_match_raises(fn_args.query_value, fn_args.book_field)
         THEN [pc |-> "raised", exc |-> "AttributeError"]
         ELSE [pc |-> "returned",
               score |-> smart_keyword_match(fn_args.query_value.v, fn_args.book_field.v,
                                             fn_args.field_name)]
    /\ UNCHANGED <<cacheVars, memoVars, monVars, selVars, reqVars, concVars, fn_args>>

MatchNext ==
    \/ Match

SpecMatch == MatchInit /\ [][MatchNext]_vars

\* C23: smart_keyword_match returns for every query value, field value and field kind, the
\* score is between 0 and 1, and it is 0 when the query value or the field value is
\* missing or empty
C23_ScoreAlwaysReturned ==
    fn_result.pc # "idle" =>
        /\ fn_result.pc = "returned"
        /\ fn_result.score \in 0..ScoreUnit
        /\ (fn_args.query_value \in {PyStr(""), PyNone} \/ fn_args.book_field \in {PyStr(""), PyNone})
               => fn_result.score = 0

\* the fields that hold a number of pages
PagesFields == {"pages", "page count", "nombre de pages"}

\* C24: a pages query with a "more than" word and the number n scores 1.0 against n+1 pages
\* and 0.0 against n-1 pages; with a "less than" word, 1.0 against n-1 and 0.0 against n+1
C24_ComparatorIsInequality ==
    (fn_result.pc = "returned" /\ fn_args.field_name \in PagesFields) =>
        /\ \A p \in more_than_patterns :
              fn_args.query_value = PyStr(pages_query(p, QueryPages)) =>
                  /\ fn_args.book_field = PyStr(ToString(QueryPages + 1))
                         => fn_result.score = ScoreUnit
                  /\ fn_args.book_field = PyStr(ToString(QueryPages - 1))
                         => fn_result.score = 0
        /\ \A p \in less_than_patterns :
              fn_args.query_value = PyStr(pages_query(p, QueryPages)) =>
                  /\ fn_args.book_field = PyStr(ToString(QueryPages - 1))
                         => fn_result.score = ScoreUnit
                  /\ fn_args.book_field = PyStr(ToString(QueryPages + 1))
                         => fn_result.score = 0

\* "more than 300 pages" has scored 0.0 against 299 pages
C24_Witness ==
    /\ fn_result.pc = "returned"
    /\ fn_args.field_name = "pages"
    /\ fn_args.query_value = PyStr(pages_query("more than", QueryPages))
    /\ fn_args.book_field = PyStr(ToString(QueryPages - 1))
    /\ fn_result.score = 0

\* the field kinds that are matched as authors
AuthorFields == {"auteur", "author"}

\* C25: as an author, an initials-plus-surname query scores more than 0.5 against the full
\* name with that surname and those initials, a bare surname scores more than 0 against a
\* name that contains it, and an empty query scores 0
C25_AuthorScores ==
    (fn_result.pc = "returned" /\ fn_args.field_name \in AuthorFields) =>
        /\ \A pair \in InitialsPairs :
              (fn_args.query_value = PyStr(pair[1]) /\ fn_args.book_field = PyStr(pair[2]))
                  => 2 * fn_result.score > ScoreUnit
        /\ \A pair \in SurnamePairs :
              (fn_args.query_value = PyStr(pair[1]) /\ fn_args.book_field = PyStr(pair[2]))
                  => fn_result.score > 0
        /\ fn_args.query_value = PyStr("") => fn_result.score = 0

(***************************************************************************)
(* Claims about the states of the strategy selector (SpecSelect).          *)
(***************************************************************************)
\* the title/author scores calculate_keyword_score gives the books of the catalog
TitleAuthorScores ==
    {calculate_keyword_score(KeywordMaps[keyword_items], Catalogs[books_data][i],
                             title_author_fields).title_author_score :
        i \in 1..Len(Catalogs[books_data])}

\* some book matches on title or author and the best such score is below 1.0
WeakTitleAuthor ==
    /\ \E sc \in TitleAuthorScores : sc.num > 0
    /\ \A sc \in TitleAuthorScores : ~ScoreGeq(sc, Score(1, 1))

\* the selector has run without raising
Selected == hphase \in {"expand", "describe"}

\* the expansion phase has run on the taxonomy of the selector, excluding those ids
Expanded(ids) ==
    /\ taxonomy_matches = IF merged_taxonomy.mains # {}
                          THEN find_taxonomy_matches(Catalogs[books_data], merged_taxonomy, ids)
                          ELSE <<>>

SeedIds == {title_author_matches[i].book.id : i \in 1..Len(title_author_matches)}
SeedClassifications ==
    {JsonTexts[title_author_matches[i].book.classification] :
        i \in {j \in 1..Len(title_author_matches) :
                  /\ "classification" \in DOMAIN title_author_matches[j].book
                  /\ title_author_matches[j].book.classification \in DOMAIN JsonTexts}}

\* C27: in state 1 (best title/author score >= 1.0) the seed list is the list of the
\* title/author matches, the Classifier is not asked, the merged taxonomy holds the tags
\* of the seed records' classifications and no other, and the expansion is run with it
C27_ConfidentSeeds ==
    (Selected /\ StateCondition(1)) =>
        /\ branch = 1
        /\ gpt_calls = 0
        /\ merged_taxonomy.kind = "dict"
        /\ merged_taxonomy.tags =
               {t \in UNION {c.tags : c \in SeedClassifications} : <<t[1], t[2]>> \in MergedSlots}
        /\ hphase = "expand" => filtered_books = title_author_matches
        /\ hphase = "describe" =>
               (filtered_books = title_author_matches \o taxonomy_matches /\ Expanded(SeedIds))

\* state 1 with a seed and expansion results
C27_Witness ==
    /\ hphase = "describe"
    /\ StateCondition(1)
    /\ branch = 1
    /\ merged_taxonomy.tags # {}
    /\ taxonomy_matches # <<>>

\* C28: in state 3 (no title/author key, other-keyword matches) the final list is the list
\* of the other-keyword matches, the same records in the same order, no expansion is
\* performed and the Classifier is not asked
C28_KeywordMatchesVerbatim ==
    (Selected /\ StateCondition(3)) =>
        /\ branch = 3
        /\ gpt_calls = 0
        /\ merged_taxonomy = EmptyList
        /\ taxonomy_matches = <<>>
        /\ filtered_books = other_keyword_matches

\* state 3 has run to the end with several other-keyword matches, among them classified
\* books
C28_Witness ==
    /\ hphase = "describe"
    /\ branch = 3
    /\ Len(filtered_books) >= 2
    /\ \E i \in 1..Len(filtered_books) : BookGet(filtered_books[i].book, "classification") # ""

(***************************************************************************)
(* calculate_keyword_score called on its own: one book, a keyword map of   *)
(* one field with up to two variants.                                      *)
(***************************************************************************)
\* the longest list of variants of a field
MaxVariants == 2

\* the variants of the keys of the calls: for a title, a text contained in "Dune II", that
\* title and another one; for pages, a number near 412, that number and a far one
KeywordVariants ==
    [titre |-> {"Dune", "Dune II", "Zzz"},
     pages |-> {"410", "412", "900"},
     langue |-> {"fr", "en", "FR"}]

\* the lists of at most MaxVariants variants of a set
VariantLists(variants) == UNION {[1..n -> variants] : n \in 0..MaxVariants}

KeywordBooks ==
    {[id |-> "b2", titre |-> "Dune", langue |-> "fr", pages |-> "412"],
     [id |-> "b7", titre |-> "Dune II", langue |-> "fr"]}

KeywordArgs ==
    UNION {[fn : {"keywords"},
            keyword_items : {<<[key |-> key, values |-> KwList(l)]>> :
                                l \in VariantLists(KeywordVariants[key])},
            book : KeywordBooks] : key \in DOMAIN KeywordVariants}

KeywordInit ==
    /\ CacheInit
    /\ MonitorInit
    /\ SelectIdle
    /\ RequestInit
    /\ fn_args \in KeywordArgs
    /\ fn_result = NotCalled

\* lines 353-357: the number of variants the loop of a field passes to
\* smart_keyword_match before it ends or breaks
RECURSIVE variants_tried(_, _, _, _)
variants_tried(variants, i, book_field, field_name) ==
    IF i > Len(variants) THEN Len(variants)
    ELSE IF smart_keyword_match(variants[i], book_field, field_name) > 0 THEN i
    ELSE variants_tried(variants, i + 1, book_field, field_name)

\* calculate_keyword_score(keyword_items, book, title_author_fields), with what the loop
\* of each item added to tot_match_score and the number of variants it tried (the maps of
\* the calls have no 'categorie' key)
KeywordScore ==
    /\ fn_result.pc = "idle"
    /\ fn_result' =
         [pc |-> "returned",
          scores |-> calculate_keyword_score(fn_args.keyword_items, fn_args.book,
                                             title_author_fields),
          fields |-> [k \in 1..Len(fn_args.keyword_items) |->
                        LET item == fn_args.keyword_items[k]
                        IN  IF item_skipped(item.key, item.values, fn_args.book)
                            THEN [score |-> 0, tried |-> 0]
                            ELSE [score |-> item_score(item.key, item.values.v, fn_args.book),
                                  tried |-> variants_tried(item.values.v, 1,
                                                BookGet(fn_args.book, item.key), item.key)]]]
    /\ UNCHANGED <<cacheVars, memoVars, monVars, selVars, reqVars, concVars, fn_args>>

KeywordNext ==
    \/ KeywordScore

SpecKeyword == KeywordInit /\ [][KeywordNext]_vars

\* the score of variant j of item k of the call against the book's field
VariantScore(k, j) ==
    smart_keyword_match(fn_args.keyword_items[k].values.v[j],
                        BookGet(fn_args.book, fn_args.keyword_items[k].key),
                        fn_args.keyword_items[k].key)

\* C30: the score calculate_keyword_score uses for a field is the maximum of the scores of
\* the field's variants, and the variants are not all tried only when one of those tried
\* scored 1.0
C30_FieldScoreIsMaximum ==
    fn_result.pc = "returned" =>
        \A k \in 1..Len(fn_args.keyword_items) :
            LET n == Len(fn_args.keyword_items[k].values.v)
            IN  BookGet(fn_args.book, fn_args.keyword_items[k].key) # "" =>
                    /\ \A j \in 1..n : fn_result.fields[k].score >= VariantScore(k, j)
                    /\ fn_result.fields[k].tried < n =>
                           \E j \in 1..fn_result.fields[k].tried : VariantScore(k, j) = ScoreUnit

\* the book is in a list of matches
InMatches(book, matches) == \E k \in 1..Len(matches) : matches[k].book.id = book.id

\* a title or author key of the keyword map has a variant that scores 1.0 against the
\* field of the book
TitleAuthorFieldMatches(book) ==
    \E k \in 1..Len(KeywordMaps[keyword_items]) :
        LET item == KeywordMaps[keyword_items][k]
        IN  /\ item.key \in title_author_fields
            /\ \E j \in 1..Len(item.values.v) :
                   smart_keyword_match(item.values.v[j], BookGet(book, item.key), item.key)
                       = ScoreUnit

\* C31: once the keyword filter has run, no record is in both the title/author list and
\* the other-keyword list, and a record one of whose title/author fields scores 1.0 is
\* in the title/author list, whatever the other keys of the map score
C31_TitleAuthorTierWins ==
    hphase # "filter" =>
        \A i \in 1..Len(Catalogs[books_data]) :
            LET book == Catalogs[books_data][i]
            IN  /\ ~(InMatches(book, title_author_matches)
                         /\ InMatches(book, other_keyword_matches))
                /\ TitleAuthorFieldMatches(book) =>
                       /\ InMatches(book, title_author_matches)
                       /\ ~InMatches(book, other_keyword_matches)

(***************************************************************************)
(* Claims about the throttle decision and the clean-up of the monitor.     *)
(***************************************************************************)
\* the limits the stats of the last should_throttle call exceed, in the order memory,
\* CPU, average response time, number of active users
ExceededReasons ==
    SelectSeq(<<[over |-> slast.memory > memory_limit, reason |-> "High memory usage"],
                [over |-> slast.cpu > cpu_limit, reason |-> "High CPU usage"],
                [over |-> slast.avg_high, reason |-> "High response time"],
                [over |-> slast.active_users > max_users,
                 reason |-> "Too many concurrent users"]>>,
              LAMBDA e : e.over)

C33_FailedAcquireChangesNothing ==
    [][(slast' # slast /\ slast'.op \in {"cleanup", "should_throttle"} /\ ~slast'.acquired
            /\ ~slast'.debug_mode)
       => /\ slast'.n = 0
          /\ UNCHANGED <<active_users, user_last_activity, request_count, response_times>>]_vars

\* a clean-up called while another thread held the lock, with an idle user in its reach
C33_Witness ==
    /\ slast.op = "cleanup"
    /\ ~slast.acquired
    /\ mlock # None
    /\ users_to_remove(user_last_activity, now, timeout_seconds) # {}

(***************************************************************************)
(* The running service: the monitor calls app.py makes.  Every request     *)
(* asks should_throttle() (line 314, reduced mode), the performance route  *)
(* asks the reduced or the full report (lines 589-593), a request that     *)
(* completes calls track_request (lines 454, 555, 568).  No route calls    *)
(* cleanup_inactive_users_safe: the only call is the one get_stats makes   *)
(* under its lock.  Time passes, requests keep arriving and a thread       *)
(* inside get_stats goes on, so these steps are weakly fair; a session's   *)
(* next completed request is up to its user.                               *)
(***************************************************************************)
ServiceNext ==
    \/ \E u \in Users, rt \in ResponseTimeSamples : TrackRequest(u, rt)
    \/ \E sm \in BOOLEAN, mr \in BOOLEAN : ShouldThrottleSafe(sm, mr)
    \/ \E th \in Threads : FullStatsAcquire(th)
    \/ \E th \in Threads, m \in MemorySamples, c \in CpuSamples : FullStatsBody(th, m, c)
    \/ Tick

SpecService ==
    /\ Init
    /\ [][ServiceNext]_vars
    /\ WF_vars(Tick)
    /\ WF_vars(\E sm \in BOOLEAN, mr \in BOOLEAN : ShouldThrottleSafe(sm, mr))
    /\ WF_vars(\E th \in Threads : FullStatsAcquire(th))
    /\ WF_vars(\E th \in Threads, m \in MemorySamples, c \in CpuSamples :
                   FullStatsBody(th, m, c))

\* every tracked session has been idle for longer than the inactivity timeout
AllIdle ==
    \A i \in 1..Len(user_last_activity) :
        now - user_last_activity[i].last_activity > timeout_seconds

\* C34: once requests are rejected for too many active users and the counted sessions have
\* been idle for longer than the timeout, the service eventually counts max_users sessions
\* or fewer (or one of the sessions stops being idle)
C34_IdleSessionsStopCounting ==
    (/\ slast.op = "should_throttle"
     /\ slast.reason = "Too many concurrent users"
     /\ Cardinality(active_users) > max_users
     /\ AllIdle)
    ~> (Cardinality(active_users) <= max_users \/ ~AllIdle)

(***************************************************************************)
(* More claims about the sessions under concurrency.                       *)
(***************************************************************************)
\* C35: while the last update_session_activity of a session is less than session_timeout
\* old, no step of a cleanup run removes the session from the dict, and no save puts an
\* older timestamp in the place of the one the update saved
C35_RefreshedSessionKept ==
    [][\A u \in RequestUsers :
          (activity[u] >= 0 /\ now - activity[u] < session_timeout) =>
              /\ (sweep' # sweep /\ user_filtered_books[u].has) => user_filtered_books'[u].has
              /\ (session_timestamps[u] = activity[u] /\ session_timestamps'[u] >= 0) =>
                     session_timestamps'[u] >= session_timestamps[u]]_vars

(***************************************************************************)
(* More claims about the cache.                                            *)
(***************************************************************************)
\* the threads whose get call returns in this step: the locked section of lines 38-53
\* ends, or the miss of a failed key derivation (line 34) is written
GetReturns ==
    {th \in Threads : pc[th] \in {"l_get", "miss_write", "w_miss_write"} /\ pc'[th] # pc[th]}

\* C36: cache_hits + cache_misses is the number of get calls completed since the last
\* reset_stats: reset_stats takes the sum to 0, a step in which a get returns takes it up
\* by one, and no other step changes it
C36_CountersCountGets ==
    [][cache_hits' + cache_misses' =
           IF \E th \in Threads : pc[th] = "l_reset" /\ pc'[th] # pc[th]
           THEN 0
           ELSE cache_hits + cache_misses + Cardinality(GetReturns)]_vars

(***************************************************************************)
(* The locks when every thread goes on.  A thread that is inside a call    *)
(* and is not kept out by a lock takes its next step: the scheduler runs   *)
(* every runnable thread, "with self.lock:" is granted when the lock is    *)
(* free, lock.acquire(timeout=0.1) returns after 0.1 s at the latest, and  *)
(* the Classifier answers or raises.  Whether a thread starts a new call   *)
(* is up to its caller.  Each of these steps moves the thread, so the      *)
(* fairness condition is on the steps that change pc.                      *)
(***************************************************************************)
\* the steps by which thread th goes on with the call it is in
Continue(th) ==
    \/ LockedGetBody(th)
    \/ MissRead(th)
    \/ MissWrite(th)
    \/ \E r \in Responses : WrapperClassify(th, r)
    \/ WrapperClassifyRaises(th)
    \/ LockedSetAcquire(th)
    \/ LockedSetBody(th)
    \/ SetKeyError(th)
    \/ ResetStatsAcquire(th)
    \/ ResetStatsBody(th)
    \/ FullStatsBody(th, memory_limit, cpu_limit)

SpecLocksFair ==
    /\ Init
    /\ [][LocksNext]_vars
    /\ \A th \in Threads : WF_pc(Continue(th))

\* C37: every thread that is inside a call, waiting for a lock or holding one, eventually
\* is outside every call and holds neither the lock of the cache nor the lock of the
\* monitor; this includes the full get_stats, whose clean-up fails to take the lock the
\* thread itself holds and returns
C37_NoThreadWaitsForever ==
    \A th \in Threads :
        (pc[th] # "idle") ~> (pc[th] = "idle" /\ glock # th /\ mlock # th)

\* a thread is inside the full get_stats with the monitor's lock while the other one
\* waits for the lock of the cache, which nobody holds any more
C37_Witness ==
    \E th \in Threads, other \in Threads :
        /\ th # other
        /\ pc[th] = "st_locked"
        /\ mlock = th
        /\ pc[other] \in {"w_set", "reset_stats"}
        /\ slast.op = "should_throttle"
        /\ ~slast.debug_mode

\* C38: a set call for a key that is in the full cache puts the new value and the time of
\* the call in the entry of the key and leaves the set of cached keys as it was
C38_ReplaceEvictsNothing ==
    [][(/\ ops' = ops + 1
        /\ last'.op = "set"
        /\ last'.key \in Keys(cache)
        /\ Len(cache) >= max_size)
       => /\ Keys(cache') = Keys(cache)
          /\ \E i \in 1..Len(cache') :
                 cache'[i] = [key |-> last'.key, value |-> last'.value, timestamp |-> now]]_vars

(***************************************************************************)
(* The three cached wrappers of utils/gpt_services_backup.py on the one    *)
(* GPTCache, one whole call at a time.  What a service function answers is *)
(* written as the name of the kind of answer and the text it was called    *)
(* with, so that a value found in the cache tells which call produced it.  *)
(***************************************************************************)
\* the query texts of the calls
WrapperTexts == {"Dune", "dune ", "Dune_keywords"}
\* the taxonomy the description wrapper is handed: the merged taxonomy of the request
MergedTaxonomies == {"T2"}

\* what get_catagories_with_gpt(text, ...) answers
get_catagories_with_gpt(text) == "categories of " \o text
\* what get_keywords_with_gpt(text, ...) answers
get_keywords_with_gpt(text) == "keywords of " \o text
\* what get_description_with_gpt(text, ...) answers
get_description_with_gpt(text) == "description of " \o text

\* the cache and its counters after a wrapper call with result r
WrapperCall(r) ==
    /\ UNCHANGED notMemo
    /\ ops < MaxOps
    /\ ops' = ops + 1
    /\ cache' = r.cache
    /\ CountGet(r)
    /\ UNCHANGED <<now, pc, tmp, last, set_at, lru, wr, returned>>

\* get_catagories_with_gpt_cached(text, taxonomy_data, openai_client, gpt_cache)
ClassifyCached(text) ==
    \E r \in {cached_call(cache, text, taxonomy, get_catagories_with_gpt(text), now)} :
        /\ WrapperCall(r)
        /\ wlast' = [text |-> PyStr(text), taxonomy_data |-> taxonomy, ret |-> r.ret,
                     called |-> r.called, expect |-> {}]

\* get_keywords_with_gpt_cached(text, taxonomy_data, openai_client, gpt_cache)
KeywordsCached(text) ==
    \E r \in {cached_call(cache, keywords_cache_text(text), taxonomy,
                           get_keywords_with_gpt(text), now)} :
        /\ WrapperCall(r)
        /\ UNCHANGED wlast

\* get_description_with_gpt_cached(text, merged_taxonomy, openai_client, gpt_cache)
DescribeCached(text, merged) ==
    \E r \in {cached_call(cache, text, merged, get_description_with_gpt(text), now)} :
        /\ WrapperCall(r)
        /\ UNCHANGED wlast

WrappersNext ==
    \/ \E text \in WrapperTexts : ClassifyCached(text)
    \/ \E text \in WrapperTexts : KeywordsCached(text)
    \/ \E text \in WrapperTexts, merged \in MergedTaxonomies : DescribeCached(text, merged)
    \/ Tick

SpecWrappers == Init /\ [][WrappersNext]_vars

\* C39: what the cached classification wrapper returns for a query was answered by
\* get_catagories_with_gpt for a query with the same lowered and stripped text, never by
\* the keyword or the description service function
C39_ClassificationFromClassifier ==
    wlast.text # PyNone =>
        \E text \in WrapperTexts :
            /\ Strip(Lower(text)) = Strip(Lower(wlast.text.v))
            /\ wlast.ret = get_catagories_with_gpt(text)

(***************************************************************************)
(* The clean-up called again and again with the lock free, as a caller of  *)
(* cleanup_inactive_users_safe would, while sessions go on completing      *)
(* requests and time goes on, both without end.  The clean-up reads the    *)
(* clock and the last activities only through time.time() - last_activity  *)
(* > timeout, so once the clock is at MaxTime a tick is written as every   *)
(* last activity moving one back (an age of MaxTime stands for MaxTime or  *)
(* more, which is above the timeout).  request_count plays no part in the  *)
(* clean-up and is followed up to MaxCounted per session.  The clock is    *)
(* weakly fair and the clean-up strongly fair: a clean-up that could       *)
(* remove a session again and again does run at such a moment.  Whether a  *)
(* session completes another request is up to its user.                    *)
(***************************************************************************)
\* the requests counted per session in SpecCleanup
MaxCounted == 1

\* track_request(user_id, response_time), lines 34-39
TrackRequestAgain(user, response_time) ==
    /\ UNCHANGED notMonitor
    /\ mlock = None
    /\ request_count' = [request_count EXCEPT ![user] = IF @ < MaxCounted THEN @ + 1 ELSE @]
    /\ response_times' = deque_append(response_times, response_time)
    /\ active_users' = active_users \cup {user}
    /\ user_last_activity' = activity_set(user_last_activity, user, now)
    /\ dropped' = (dropped /\ Cardinality(active_users') <= max_users)
    /\ UNCHANGED <<now, pc, mlock, slast>>

\* the clock advances, without end
Elapse ==
    /\ UNCHANGED notMonitor
    /\ IF now < MaxTime
       THEN now' = now + 1 /\ UNCHANGED user_last_activity
       ELSE /\ now' = now
            /\ user_last_activity' =
                   [i \in 1..Len(user_last_activity) |->
                       [user_last_activity[i] EXCEPT
                           !.last_activity = IF @ > 0 THEN @ - 1 ELSE 0]]
    /\ UNCHANGED <<pc, active_users, response_times, request_count, mlock, slast, dropped>>

CleanupNext ==
    \/ \E u \in Users : TrackRequestAgain(u, 1)
    \/ CleanupInactive
    \/ Elapse

SpecCleanup ==
    /\ Init
    /\ [][CleanupNext]_vars
    /\ SF_vars(CleanupInactive)
    /\ WF_vars(Elapse)

\* session u is tracked and its last request is older than the inactivity timeout
IdleSession(u) ==
    /\ u \in active_users
    /\ \E i \in 1..Len(user_last_activity) :
           /\ user_last_activity[i].user_id = u
           /\ now - user_last_activity[i].last_activity > timeout_seconds

\* C40: with the clean-up called again and again and the lock free, every session idle
\* for longer than the timeout is eventually out of active_users (or active again),
\* whatever the other sessions do
C40_IdleSessionRemoved ==
    \A u \in Users : IdleSession(u) ~> ~IdleSession(u)

====
